---- MODULE Spec2Model ----
(***************************************************************************)
(* Model of the multi-source scraper of dev-snippet-search                 *)
(* (src/unnamed/part_000: fetchDevToArticles, fetchHashnodeArticles,       *)
(* fetchAlternativeRSSArticles, scrapeAllSources), of                      *)
(* the Dev.to-only script (src/scripts/dev-scraper.mjs) and the saved      *)
(* snippets of the search page (src/src/pages/index.tsx).                  *)
(*                                                                         *)
(* JavaScript values are records tagged with their typeof/kind in field t. *)
(* Identifier-like strings (ids, guids, links, slugs, objectIDs) carry a   *)
(* TLA+ string in field v and are only ever concatenated; text the code    *)
(* splits, trims or lower-cases (tags, titles, categories) carries a       *)
(* sequence of one-character strings in field c.                           *)
(***************************************************************************)
EXTENDS Integers, Sequences, FiniteSets, TLC

VARIABLES
    run,          \* number of the current process run (1-based)
    upstream,     \* upstream[a][i]: the response the i-th tag/feed of adapter a gives
    idx,          \* idx[a]: position of adapter a's for-loop in its tag/feed list
    phase,        \* phase[a]: "fetch" | "await" | "delay" | "done"
    allArticles,  \* allArticles[a]: the adapter-local accumulator (let allArticles = [])
    requested,    \* requested[a]: indices of the tags/feeds requested so far, in order
    errLog,       \* errLog[a]: indices of the tags/feeds for which console.error ran
    elapsed,      \* elapsed[a]: ms of delay() completed since a's last request was issued
    gap,          \* gap[a]: elapsed[a] at the moment a's latest request was issued
    opc,          \* scrapeAllSources: "fetching" | "done" (line 256 reached) | "error" (line 259 logged)
    uniqueArticles, \* the deduplicator's output of the run (const uniqueArticles)
    normalized,   \* the final batch of the run (const normalized)
    file,         \* ./scraped-snippets.json: [exists, whole, content]
    sinkCalls,    \* the calls of fs.writeFileSync so far, in order: [run, batch, outcome]
    summary,      \* what the summary block logged: [logged, devTo, hashnode, rss, sourceCounts, total]
    prevIds       \* prevIds[a]: objectIDs adapter a returned in the previous run

\* the search page (src/pages/index.tsx, SnippetSearchApp)
VARIABLES
    localStorage,   \* the entry "dev-snippet-search-saved-snippets": [kind, value]
    userIdStored,   \* localStorage holds the entry "snippet-search-user-id"
    mounted,        \* the page is loaded and SnippetSearchApp has rendered
    savedSnippets,  \* state of the committed render (useState<SearchHit[]>([]))
    isHydrated,     \* state of the committed render (useState(false))
    updates,        \* state updates queued for the next render, in call order
    effects,        \* effects of the committed render that have not run yet
    search,         \* the running InstantSearch: [started, isHydrated, savedSnippets] of its closure
    dataSaved,      \* data-saved attribute of the bookmark button of each rendered hit
    saveError,      \* the latest saveSnippetsToStorage logged an error
    loads,          \* page loads so far
    clicks          \* user actions on the page since it was loaded

\* the Dev.to-only script (src/scripts/dev-scraper.mjs, fetchArticlesByTags)
VARIABLES
    scriptUpstream,    \* scriptUpstream[i]: the response the Dev.to API gives for the i-th tag
    scriptPc,          \* "off" | "fetching" | "done" (line 119 reached) | "rejected" (the write threw)
    scriptIdx,         \* position of the for-loop in the tag list
    scriptArticles,    \* let allArticles = [] of fetchArticlesByTags
    scriptErrLog,      \* indices of the tags for which console.error ran
    scriptUnique,      \* const uniqueArticles of fetchArticlesByTags
    scriptNormalized,  \* const normalized of fetchArticlesByTags
    scriptFile         \* ./devto-snippets.json: [exists, whole, content]

pipelineVars == <<run, upstream, idx, phase, allArticles, requested, errLog, elapsed, gap,
                  opc, uniqueArticles, normalized, file, sinkCalls, summary, prevIds>>

pageVars == <<localStorage, userIdStored, mounted, savedSnippets, isHydrated, updates, effects, search,
              dataSaved, saveError, loads, clicks>>

scriptVars == <<scriptUpstream, scriptPc, scriptIdx, scriptArticles, scriptErrLog,
                scriptUnique, scriptNormalized, scriptFile>>

vars == <<run, upstream, idx, phase, allArticles, requested, errLog, elapsed, gap,
          opc, uniqueArticles, normalized, file, sinkCalls, summary, prevIds,
          localStorage, userIdStored, mounted, savedSnippets, isHydrated, updates, effects, search,
          dataSaved, saveError, loads, clicks,
          scriptUpstream, scriptPc, scriptIdx, scriptArticles, scriptErrLog,
          scriptUnique, scriptNormalized, scriptFile>>

(***************************************************************************)
(* Bounds of the model.                                                    *)
(***************************************************************************)
NumTags == 2            \* how many of the configured Dev.to tags a run loops over
NumHashnodeFeeds == 1   \* how many of the configured Hashnode feeds
NumAltFeeds == 2        \* how many of the configured alternative feeds
MaxRuns == 2            \* process runs in one behaviour
MaxArticles == 3        \* longest Dev.to response of the batch specification

(***************************************************************************)
(* JavaScript values.                                                      *)
(***************************************************************************)
Undefined == [t |-> "undefined"]
Null == [t |-> "null"]
Str(s) == [t |-> "string", v |-> s]
Txt(chars) == [t |-> "string", c |-> chars]
Num(n) == [t |-> "number", v |-> n]
Arr(elems) == [t |-> "array", v |-> elems]

\* ToBoolean, as `||`, `&&`, `if (x)` and filter(Boolean) apply it
Truthy(x) ==
    CASE x.t \in {"undefined", "null"} -> FALSE
      [] x.t = "string" -> IF "c" \in DOMAIN x THEN x.c # <<>> ELSE x.v # ""
      [] x.t = "number" -> x.v # 0
      [] OTHER -> TRUE

\* a || b
Or(a, b) == IF Truthy(a) THEN a ELSE b

\* `${x}` for an identifier-like value
Template(x) ==
    CASE x.t = "undefined" -> "undefined"
      [] x.t = "null" -> "null"
      [] x.t = "number" -> ToString(x.v)
      [] OTHER -> x.v

(***************************************************************************)
(* Text: String.prototype.trim, split, toLowerCase on character sequences. *)
(***************************************************************************)
\* the white space String.prototype.trim removes (of the characters the model uses)
IsSpace(ch) == ch \in {" ", "\t"}

RECURSIVE TrimStart(_)
TrimStart(s) ==
    IF s # <<>> /\ IsSpace(Head(s)) THEN TrimStart(Tail(s)) ELSE s

RECURSIVE TrimEnd(_)
TrimEnd(s) ==
    IF s # <<>> /\ IsSpace(s[Len(s)]) THEN TrimEnd(SubSeq(s, 1, Len(s) - 1)) ELSE s

Trim(s) == TrimEnd(TrimStart(s))

\* s.split(sep) for a one-character separator: always at least one segment
RECURSIVE Split(_, _)
Split(s, sep) ==
    IF s = <<>> THEN << <<>> >>
    ELSE LET rest == Split(Tail(s), sep)
         IN  IF Head(s) = sep
             THEN << <<>> >> \o rest
             ELSE << <<Head(s)>> \o Head(rest) >> \o Tail(rest)

LowerChar(ch) ==
    CASE ch = "A" -> "a"
      [] ch = "I" -> "i"
      [] ch = "R" -> "r"
      [] OTHER -> ch

ToLowerCase(s) == [i \in 1..Len(s) |-> LowerChar(s[i])]

RECURSIVE Flatten(_)
Flatten(ss) == IF ss = <<>> THEN <<>> ELSE Head(ss) \o Flatten(Tail(ss))

(***************************************************************************)
(* Configuration (part_000 lines 5-6, 56-62, 133-139).                     *)
(***************************************************************************)
tags == <<"react", "javascript", "webdev", "ai", "programming", "typescript",
          "nodejs", "nextjs">>
perTagLimit == 15
AltFeedLimit == 10

hashnodeFeeds == <<"https://hashnode.com/n/react/rss.xml",
                   "https://hashnode.com/n/javascript/rss.xml",
                   "https://hashnode.com/n/web-development/rss.xml",
                   "https://hashnode.com/n/artificial-intelligence/rss.xml",
                   "https://hashnode.com/n/programming/rss.xml">>

alternativeFeeds ==
    << [url |-> "https://feeds.feedburner.com/css-tricks", source |-> "css-tricks"],
       [url |-> "https://feeds.feedburner.com/smashingmagazine", source |-> "smashing-magazine"],
       [url |-> "https://feeds.feedburner.com/webdesignledger", source |-> "web-design-ledger"],
       [url |-> "https://feeds.feedburner.com/uxmovement", source |-> "ux-movement"],
       [url |-> "https://feeds.feedburner.com/uxplanet", source |-> "ux-planet"] >>

DevToDelay == 2000
HashnodeDelay == 3000
AltDelay == 2000

Adapters == {"devto", "hashnode", "alt"}

\* Promise.all order, which is also the order of the spread in line 212
AdapterOrder == <<"devto", "hashnode", "alt">>

NumUnits(a) ==
    CASE a = "devto" -> NumTags
      [] a = "hashnode" -> NumHashnodeFeeds
      [] a = "alt" -> NumAltFeeds

Delay(a) ==
    CASE a = "devto" -> DevToDelay
      [] a = "hashnode" -> HashnodeDelay
      [] a = "alt" -> AltDelay

\* the allow-lists of the title fallback (lines 95 and 169)
HashnodeKeywords ==
    { <<"r","e","a","c","t">>, <<"j","a","v","a","s","c","r","i","p","t">>,
      <<"t","y","p","e","s","c","r","i","p","t">>, <<"n","o","d","e","j","s">>,
      <<"n","e","x","t","j","s">>, <<"w","e","b","d","e","v">>, <<"a","i">>,
      <<"p","r","o","g","r","a","m","m","i","n","g">> }

AltKeywords ==
    HashnodeKeywords \cup
    { <<"c","s","s">>, <<"h","t","m","l">>, <<"w","e","b">>, <<"d","e","s","i","g","n">> }

(***************************************************************************)
(* Upstream data: Dev.to API articles and parsed RSS documents.            *)
(***************************************************************************)
Article(id, title, tag_list) ==
    [t |-> "object", id |-> id, title |-> title, description |-> Undefined,
     url |-> Str("u"), tag_list |-> tag_list, published_at |-> Str("2024"),
     reading_time_minutes |-> Num(3)]

Item(guid, link, title, category) ==
    [t |-> "object", guid |-> guid, link |-> link, title |-> title,
     description |-> Str("d"), category |-> category, pubDate |-> Undefined,
     creator |-> Undefined, author |-> Undefined]

\* an axios.get or parser.parse that throws
Failure == [kind |-> "error"]
\* axios.get resolved: res.data of the Dev.to API
ApiOk(data) == [kind |-> "ok", data |-> data]
\* parser.parse(res.data) of a feed
Parsed(doc) == [kind |-> "ok", parsed |-> doc]
NoRss == [rss |-> Undefined]
NoChannel == [rss |-> [t |-> "object", channel |-> Undefined]]
Channel(item) == [rss |-> [t |-> "object", channel |-> [t |-> "object", item |-> item]]]

(***************************************************************************)
(* fetchDevToArticles: the mapping of one article (lines 25-35).           *)
(***************************************************************************)
\* an objectID that also carries the number of the run
DevToObjectIDPerRun(article) == "devto-" \o ToString(run) \o "-" \o Template(article.id)

DevToObjectID(article) == "devto-" \o Template(article.id)

MapDevToArticle(article) ==
    [objectID |-> DevToObjectID(article),
     title |-> article.title,
     snippet |-> Or(article.description, Str("")),
     preview |-> Or(article.description, Str("")),
     url |-> article.url,
     tags |-> article.tag_list,
     source |-> "dev.to",
     publishedAt |-> article.published_at,
     readingTime |-> article.reading_time_minutes]

(***************************************************************************)
(* The RSS adapters: the mapping of one item (lines 86-110 and 160-184).   *)
(***************************************************************************)
\* item.title.toLowerCase() raises a TypeError unless title is a string
TitleThrows(item) == ~Truthy(item.category) /\ item.title.t # "string"

\* tags of a title that is not lower-cased before it is split
ItemTagsCaseSensitive(item, keywords) ==
    IF Truthy(item.category)
    THEN IF item.category.t = "array" THEN item.category.v ELSE <<item.category.c>>
    ELSE LET titleWords == Split(item.title.c, " ")
         IN  SelectSeq(titleWords, LAMBDA word : word \in keywords)

\* lines 88-97 and 162-171: the category, or else the allow-listed words of the title
ItemTags(item, keywords) ==
    IF Truthy(item.category)
    THEN IF item.category.t = "array" THEN item.category.v ELSE <<item.category.c>>
    ELSE LET titleWords == Split(ToLowerCase(item.title.c), " ")
         IN  SelectSeq(titleWords, LAMBDA word : word \in keywords)

\* an objectID that prefers the link to the guid
RssObjectIDLinkFirst(prefix, item) == prefix \o "-" \o Template(Or(item.link, item.guid))

\* an objectID that is the native id alone
RssObjectIDWithoutPrefix(prefix, item) == Template(Or(item.guid, item.link))

RssObjectID(prefix, item) == prefix \o "-" \o Template(Or(item.guid, item.link))

MapRssItem(item, source, keywords, defaultAuthor) ==
    [objectID |-> RssObjectID(source, item),
     title |-> item.title,
     snippet |-> Or(item.description, Str("")),
     preview |-> Or(item.description, Str("")),
     url |-> item.link,
     tags |-> Arr(ItemTags(item, keywords)),
     source |-> source,
     publishedAt |-> item.pubDate,
     author |-> Or(Or(item.creator, item.author), Str(defaultAuthor))]

\* no wrapping: a bare item object is taken for an empty list
WrapItemsArraysOnly(item) == IF item.t = "array" THEN item.v ELSE <<>>

\* Array.isArray(x) ? x : [x]
WrapItems(item) == IF item.t = "array" THEN item.v ELSE <<item>>

\* a slice that keeps one item more than the limit
SliceKeepsOneMore(items, limit) ==
    SubSeq(items, 1, IF Len(items) < limit + 1 THEN Len(items) ELSE limit + 1)

\* items.slice(0, limit)
Slice(items, limit) ==
    SubSeq(items, 1, IF Len(items) < limit THEN Len(items) ELSE limit)

\* parsed.rss && parsed.rss.channel && parsed.rss.channel.item
HasItems(parsed) ==
    /\ Truthy(parsed.rss)
    /\ Truthy(parsed.rss.channel)
    /\ Truthy(parsed.rss.channel.item)

(***************************************************************************)
(* The body of one loop iteration's try block, from the response on:       *)
(* threw says whether control reached the catch block, articles is what    *)
(* the iteration concatenates to allArticles.                              *)
(***************************************************************************)
Threw == [threw |-> TRUE, articles |-> <<>>]
Got(articles) == [threw |-> FALSE, articles |-> articles]

\* article.id of an element that is null or undefined raises a TypeError
ArticleThrows(article) == article.t \in {"null", "undefined"}

\* an iteration whose mapping leaves out the articles it cannot map
DevToIterationSkipsBadArticles(resp) ==
    IF resp.kind = "error" THEN Threw
    ELSE LET good == SelectSeq(resp.data, LAMBDA article : ~ArticleThrows(article))
         IN  Got([i \in 1..Len(good) |-> MapDevToArticle(good[i])])

\* lines 17-37, from the response to the concat
DevToIteration(resp) ==
    IF resp.kind = "error" THEN Threw
    ELSE IF \E i \in 1..Len(resp.data) : ArticleThrows(resp.data[i]) THEN Threw
    ELSE Got([i \in 1..Len(resp.data) |-> MapDevToArticle(resp.data[i])])

\* an iteration that takes the items of the feed without looking for them
RssIterationUnguarded(resp, source, limit, keywords, defaultAuthor) ==
    IF resp.kind = "error" \/ ~HasItems(resp.parsed) THEN Threw
    ELSE LET items == Slice(WrapItems(resp.parsed.rss.channel.item), limit)
         IN  IF \E i \in 1..Len(items) : TitleThrows(items[i])
             THEN Threw
             ELSE Got([i \in 1..Len(items) |-> MapRssItem(items[i], source, keywords, defaultAuthor)])

\* lines 79-115 and 153-188, from the parsed document to the concat
RssIteration(resp, source, limit, keywords, defaultAuthor) ==
    IF resp.kind = "error" THEN Threw
    ELSE IF ~HasItems(resp.parsed) THEN Got(<<>>)
    ELSE LET items == Slice(WrapItems(resp.parsed.rss.channel.item), limit)
         IN  IF \E i \in 1..Len(items) : TitleThrows(items[i])
             THEN Threw
             ELSE Got([i \in 1..Len(items) |-> MapRssItem(items[i], source, keywords, defaultAuthor)])

HashnodeIteration(resp) ==
    RssIteration(resp, "hashnode", perTagLimit, HashnodeKeywords, "Hashnode Author")

AltIteration(resp, i) ==
    LET feed == alternativeFeeds[i]
    IN  RssIteration(resp, feed.source, AltFeedLimit, AltKeywords, feed.source \o " Author")

Iteration(a, i, resp) ==
    CASE a = "devto" -> DevToIteration(resp)
      [] a = "hashnode" -> HashnodeIteration(resp)
      [] a = "alt" -> AltIteration(resp, i)

(***************************************************************************)
(* scrapeAllSources, lines 212-255: the synchronous post-processing.       *)
(***************************************************************************)
\* a set that keeps the value a key already has (first occurrence wins)
MapSetKeepFirst(entries, key, value) ==
    IF \E i \in 1..Len(entries) : entries[i].key = key
    THEN entries
    ELSE Append(entries, [key |-> key, value |-> value])

\* a set that moves an existing key to the end (order of last occurrence)
MapSetMoveToEnd(entries, key, value) ==
    Append(SelectSeq(entries, LAMBDA e : e.key # key), [key |-> key, value |-> value])

\* Map.prototype.set on the entry list of a Map: an existing key keeps its
\* position and takes the new value, a new key is appended
MapSet(entries, key, value) ==
    IF \E i \in 1..Len(entries) : entries[i].key = key
    THEN [i \in 1..Len(entries) |->
            IF entries[i].key = key THEN [key |-> key, value |-> value] ELSE entries[i]]
    ELSE Append(entries, [key |-> key, value |-> value])

\* new Map(batch.map(a => [a.objectID, a]))
RECURSIVE NewMap(_, _)
NewMap(batch, entries) ==
    IF batch = <<>> THEN entries
    ELSE NewMap(Tail(batch), MapSet(entries, Head(batch).objectID, Head(batch)))

\* a de-duplication that keeps each last occurrence where it stands
DedupAtLastOccurrence(batch) ==
    LET kept == SelectSeq([k \in 1..Len(batch) |-> [at |-> k, record |-> batch[k]]],
                          LAMBDA e : \A j \in (e.at + 1)..Len(batch) :
                                        batch[j].objectID # e.record.objectID)
    IN  [i \in 1..Len(kept) |-> kept[i].record]

\* Array.from(new Map(...).values())
Dedup(batch) ==
    LET entries == NewMap(batch, <<>>)
    IN  [i \in 1..Len(entries) |-> entries[i].value]

\* the split without its filter(Boolean)
SplitTagsNoFilter(chars) ==
    LET segments == Split(chars, ",")
    IN  [i \in 1..Len(segments) |-> Trim(segments[i])]

\* the split that also drops a tag it has already produced
SplitTagsUnique(chars) ==
    LET segments == Split(chars, ",")
        trimmed == [i \in 1..Len(segments) |-> Trim(segments[i])]
        kept == {i \in 1..Len(trimmed) :
                    trimmed[i] # <<>> /\ \A j \in 1..(i - 1) : trimmed[j] # trimmed[i]}
    IN  [k \in 1..Cardinality(kept) |->
            trimmed[CHOOSE i \in kept : Cardinality({j \in kept : j < i}) = k - 1]]

\* tags.split(',').map(tag => tag.trim()).filter(Boolean)
SplitTags(chars) ==
    LET segments == Split(chars, ",")
        trimmed == [i \in 1..Len(segments) |-> Trim(segments[i])]
    IN  SelectSeq(trimmed, LAMBDA tag : tag # <<>>)

\* the callback without the final Array.isArray coercion (as in dev-scraper.mjs)
NormalizeRecordKeepsNonArray(record) ==
    LET raw == record.tags
    IN  [record EXCEPT !.tags = IF raw.t = "string" THEN Arr(SplitTags(raw.c)) ELSE raw]

\* the callback building its result from the fields every source has
NormalizeRecordPicksFields(record) ==
    LET raw == record.tags
        split == IF raw.t = "string" THEN Arr(SplitTags(raw.c)) ELSE raw
    IN  [objectID |-> record.objectID, title |-> record.title, url |-> record.url,
         source |-> record.source, tags |-> IF split.t = "array" THEN split ELSE Arr(<<>>)]

\* the callback of uniqueArticles.map (lines 220-236)
NormalizeRecord(record) ==
    LET raw == record.tags
        split == IF raw.t = "string" THEN Arr(SplitTags(raw.c)) ELSE raw
    IN  [record EXCEPT !.tags = IF split.t = "array" THEN split ELSE Arr(<<>>)]

\* sourceCounts[source] = (sourceCounts[source] || 0) + 1
CountSource(counts, source) ==
    [src \in DOMAIN counts \cup {source} |->
        IF src = source
        THEN (IF src \in DOMAIN counts THEN counts[src] ELSE 0) + 1
        ELSE counts[src]]

\* sourceCounts after the forEach of lines 242-245 (an object keyed by source)
RECURSIVE SourceCounts(_, _)
SourceCounts(batch, counts) ==
    IF batch = <<>> THEN counts
    ELSE SourceCounts(Tail(batch), CountSource(counts, Head(batch).source))

\* JSON.stringify of one record: a property whose value is undefined is left out
StringifyRecord(record) ==
    [f \in {k \in DOMAIN record :
              k \in {"objectID", "source"} \/ record[k] # Undefined} |-> record[f]]

\* JSON.stringify(normalized, null, 2), as the parsed content of the file
Stringify(batch) == [i \in 1..Len(batch) |-> StringifyRecord(batch[i])]

\* a combination that puts the RSS sources first
CombinedRssFirst(results) ==
    results["hashnode"] \o results["alt"] \o results["devto"]

\* [...devToArticles, ...hashnodeArticles, ...alternativeArticles]
Combined(results) ==
    results["devto"] \o results["hashnode"] \o results["alt"]

NoSummary ==
    [logged |-> FALSE, devTo |-> 0, hashnode |-> 0, rss |-> 0,
     sourceCounts |-> <<>>, total |-> 0]

NoFile == [exists |-> FALSE, whole |-> TRUE, content |-> <<>>]

IDs(batch) == [i \in 1..Len(batch) |-> batch[i].objectID]

(***************************************************************************)
(* The search page: localStorage and the state before the page is loaded.  *)
(***************************************************************************)
\* localStorage.getItem gives null, a JSON text of an array, or some other text
NoEntry == [kind |-> "null", value |-> <<>>]
JsonText(value) == [kind |-> "json", value |-> value]
BrokenText == [kind |-> "broken", value |-> <<>>]

NoSearch == [started |-> FALSE, isHydrated |-> FALSE, savedSnippets |-> <<>>]

\* no page is open; the browser holds the entry `stored` and no user id
PageNotLoaded(stored) ==
    /\ localStorage = stored
    /\ userIdStored = FALSE
    /\ mounted = FALSE
    /\ savedSnippets = <<>>
    /\ isHydrated = FALSE
    /\ updates = <<>>
    /\ effects = {}
    /\ search = NoSearch
    /\ dataSaved = <<>>
    /\ saveError = FALSE
    /\ loads = 0
    /\ clicks = 0

(***************************************************************************)
(* The responses a tag or feed can give in the pipeline specification.     *)
(***************************************************************************)
TitleA == Txt(<<"a">>)
TitleB == Txt(<<"b">>)
TagsAB == Arr(<< <<"a">>, <<"b">> >>)

ItemG1 == Item(Str("g1"), Str("l1"), Txt(<<"a", "i", " ", "b">>), Undefined)
ItemL2 == Item(Undefined, Str("l2"), TitleA, Txt(<<"a">>))
ItemNoTitle == Item(Str("g3"), Str("l3"), Undefined, Undefined)

\* what the Dev.to API holds for the i-th tag: the second tag repeats article 101
DevToContent(i) ==
    IF i = 2
    THEN ApiOk(<< Article(Num(102), TitleB, Txt(<<"a", ",", " ", "b">>)),
                  Article(Num(101), TitleB, Null) >>)
    ELSE ApiOk(<< Article(Num(100 + i), TitleA, TagsAB) >>)

\* the i-th Hashnode feed: one bare item, later feeds hold an item without title
HashnodeContent(i) ==
    IF i = 1 THEN Parsed(Channel(ItemG1))
    ELSE Parsed(Channel(Arr(<<ItemG1, ItemNoTitle>>)))

\* the i-th alternative feed: two items, then a document without channel
AltContent(i) ==
    IF i = 1 THEN Parsed(Channel(Arr(<<ItemL2, ItemG1>>)))
    ELSE IF i = 2 THEN Parsed(NoChannel)
    ELSE Parsed(Channel(ItemG1))

Content(a, i) ==
    CASE a = "devto" -> DevToContent(i)
      [] a = "hashnode" -> HashnodeContent(i)
      [] a = "alt" -> AltContent(i)

\* the request for a tag/feed fails or delivers what the upstream holds
Responses(a, i) == {Failure, Content(a, i)}

(***************************************************************************)
(* The adapters: one for-loop iteration is request, response, delay.       *)
(***************************************************************************)
\* a loop that ends one tag/feed early
AdvancePhaseStopsEarly(a, i) == IF i >= NumUnits(a) THEN "done" ELSE "fetch"

\* for (const tag of tags): the loop goes on with the i-th tag/feed or ends
AdvancePhase(a, i) == IF i > NumUnits(a) THEN "done" ELSE "fetch"

\* a catch that ends the loop at the first failure
AfterCatchStops(a, i) == "done"

\* the catch block logs the error and the for-loop goes on with the next tag/feed
AfterCatch(a, i) == AdvancePhase(a, i + 1)

\* axios.get is called for the next tag/feed (lines 18, 69, 145)
Issue(a) ==
    /\ opc = "fetching"
    /\ phase[a] = "fetch"
    /\ phase' = [phase EXCEPT ![a] = "await"]
    /\ requested' = [requested EXCEPT ![a] = Append(@, idx[a])]
    /\ gap' = [gap EXCEPT ![a] = elapsed[a]]
    /\ elapsed' = [elapsed EXCEPT ![a] = 0]
    /\ UNCHANGED <<run, upstream, idx, allArticles, errLog, opc, uniqueArticles, normalized, file,
                   sinkCalls, summary, prevIds>>
    /\ UNCHANGED <<pageVars, scriptVars>>

\* the awaited request settles and the rest of the try block runs, up to the
\* await of delay() or into the catch block
Settle(a, resp) ==
    LET r == Iteration(a, idx[a], resp)
    IN  /\ IF r.threw
           THEN /\ errLog' = [errLog EXCEPT ![a] = Append(@, idx[a])]
                /\ idx' = [idx EXCEPT ![a] = @ + 1]
                /\ phase' = [phase EXCEPT ![a] = AfterCatch(a, idx[a])]
                /\ UNCHANGED allArticles
           ELSE /\ allArticles' = [allArticles EXCEPT ![a] = @ \o r.articles]
                /\ phase' = [phase EXCEPT ![a] = "delay"]
                /\ UNCHANGED <<errLog, idx>>
        /\ UNCHANGED <<run, requested, elapsed, gap, opc, uniqueArticles, normalized, file,
                       sinkCalls, summary, prevIds>>
        /\ UNCHANGED <<pageVars, scriptVars>>

\* the upstream answers a request whose answer is not laid down yet; the
\* answer is remembered so that a later run can be given the same upstream data
Respond(a) ==
    /\ phase[a] = "await"
    /\ Len(upstream[a]) < idx[a]
    /\ \E resp \in Responses(a, idx[a]) :
          /\ upstream' = [upstream EXCEPT ![a] = Append(@, resp)]
          /\ Settle(a, resp)

\* the upstream answers as laid down: as it did in the first run, or as the
\* answers chosen for this run say
RespondAgain(a) ==
    /\ phase[a] = "await"
    /\ Len(upstream[a]) >= idx[a]
    /\ UNCHANGED upstream
    /\ Settle(a, upstream[a][idx[a]])

\* await delay(ms) resolves (lines 41, 117, 190) and the loop goes on
DelayDone(a) ==
    /\ phase[a] = "delay"
    /\ elapsed' = [elapsed EXCEPT ![a] = @ + Delay(a)]
    /\ idx' = [idx EXCEPT ![a] = @ + 1]
    /\ phase' = [phase EXCEPT ![a] = AdvancePhase(a, idx[a] + 1)]
    /\ UNCHANGED <<run, upstream, allArticles, requested, errLog, gap, opc, uniqueArticles, normalized,
                   file, sinkCalls, summary, prevIds>>
    /\ UNCHANGED <<pageVars, scriptVars>>

(***************************************************************************)
(* scrapeAllSources after Promise.all has resolved (lines 211-260).        *)
(***************************************************************************)
\* a wait that ends with the first adapter that returns (Promise.race)
FirstSettled == \E a \in Adapters : phase[a] = "done"

\* await Promise.all([...]) has resolved: every adapter has returned
AllSettled == \A a \in Adapters : phase[a] = "done"

\* a summary whose per-source counts are taken before de-duplication
SummaryOfCombined(results, batch) ==
    [logged |-> TRUE,
     devTo |-> Len(results["devto"]),
     hashnode |-> Len(results["hashnode"]),
     rss |-> Len(results["alt"]),
     sourceCounts |-> SourceCounts(Combined(results), <<>>),
     total |-> Len(batch)]

\* what lines 241-256 log
Summary(results, batch) ==
    [logged |-> TRUE,
     devTo |-> Len(results["devto"]),
     hashnode |-> Len(results["hashnode"]),
     rss |-> Len(results["alt"]),
     sourceCounts |-> SourceCounts(batch, <<>>),
     total |-> Len(batch)]

\* lines 212-236: combine, de-duplicate, normalize
Deduplicated == Dedup(Combined(allArticles))
FinalBatch == [i \in 1..Len(Deduplicated) |-> NormalizeRecord(Deduplicated[i])]

\* how a call of fs.writeFileSync can end: it returns, it throws before the
\* file is opened (or JSON.stringify throws), or it throws after the file was
\* opened for writing and thereby truncated
WriteOutcomes == {"written", "unopened", "cut"}

\* a file opened with flag 'w' whose text was not written to its end
CutFile == [exists |-> TRUE, whole |-> FALSE, content |-> <<>>]

\* a write that appends the batch to what the file holds
WriteFileSyncAppends(f, batch, outcome) ==
    CASE outcome = "written" ->
            [exists |-> TRUE, whole |-> TRUE,
             content |-> (IF f.whole THEN f.content ELSE <<>>) \o Stringify(batch)]
      [] outcome = "unopened" -> f
      [] outcome = "cut" -> CutFile

\* a write that is left out when there is nothing to write
WriteFileSyncSkipsEmpty(f, batch, outcome) ==
    CASE outcome = "written" /\ batch # <<>> ->
            [exists |-> TRUE, whole |-> TRUE, content |-> Stringify(batch)]
      [] outcome = "cut" -> CutFile
      [] OTHER -> f

\* fs.writeFileSync('./scraped-snippets.json', JSON.stringify(normalized, null, 2))
WriteFileSync(f, batch, outcome) ==
    CASE outcome = "written" -> [exists |-> TRUE, whole |-> TRUE, content |-> Stringify(batch)]
      [] outcome = "unopened" -> f
      [] outcome = "cut" -> CutFile

\* a summary block that runs whether or not the write threw (as in a finally)
SummaryAfterWriteAlways(outcome, results, batch) == Summary(results, batch)

\* lines 241-256 are reached only when writeFileSync returned
SummaryAfterWrite(outcome, results, batch) ==
    IF outcome = "written" THEN Summary(results, batch) ELSE summary

\* the try block ran to its end, or the catch of line 258 logged the error
Outcome(outcome) == IF outcome = "written" THEN "done" ELSE "error"

\* lines 212-260 for one outcome of the write
PostProcess(outcome) ==
    /\ opc = "fetching"
    /\ AllSettled
    /\ uniqueArticles' = Deduplicated
    /\ normalized' = FinalBatch
    /\ file' = WriteFileSync(file, FinalBatch, outcome)
    /\ sinkCalls' = Append(sinkCalls, [run |-> run, batch |-> FinalBatch, outcome |-> outcome])
    /\ summary' = SummaryAfterWrite(outcome, allArticles, FinalBatch)
    /\ opc' = Outcome(outcome)
    /\ UNCHANGED <<run, upstream, idx, phase, allArticles, requested, errLog,
                   elapsed, gap, prevIds>>
    /\ UNCHANGED <<pageVars, scriptVars>>

\* lines 212-256 with a writeFileSync that returns
PostProcessOk == PostProcess("written")

\* fs.writeFileSync throws: control goes to the catch of line 258
PostProcessWriteFails == \E outcome \in WriteOutcomes \ {"written"} : PostProcess(outcome)

\* the script is run again; the file of the earlier run is still there
NextRun ==
    /\ opc \in {"done", "error"}
    /\ run < MaxRuns
    /\ run' = run + 1
    /\ prevIds' = [a \in Adapters |-> IDs(allArticles[a])]
    /\ idx' = [a \in Adapters |-> 1]
    /\ phase' = [a \in Adapters |-> "fetch"]
    /\ allArticles' = [a \in Adapters |-> <<>>]
    /\ requested' = [a \in Adapters |-> <<>>]
    /\ errLog' = [a \in Adapters |-> <<>>]
    /\ elapsed' = [a \in Adapters |-> 0]
    /\ gap' = [a \in Adapters |-> 0]
    /\ opc' = "fetching"
    /\ uniqueArticles' = <<>>
    /\ normalized' = <<>>
    /\ summary' = NoSummary
    /\ UNCHANGED <<upstream, file, sinkCalls>>
    /\ UNCHANGED <<pageVars, scriptVars>>

(***************************************************************************)
(* The Dev.to-only script src/scripts/dev-scraper.mjs (lines 61-122).      *)
(***************************************************************************)
scriptTags == <<"react", "javascript", "webdev", "ai", "programming">>
scriptPerTagLimit == 20

\* the callback of res.data.map (lines 79-86)
ScriptMapArticle(article) ==
    [objectID |-> article.id,
     title |-> article.title,
     snippet |-> Or(article.description, Str("")),
     url |-> article.url,
     tags |-> article.tag_list,
     source |-> "dev.to"]

\* the try block of one iteration of the loop (lines 72-88)
ScriptIteration(resp) ==
    IF resp.kind = "error" THEN Threw
    ELSE IF \E i \in 1..Len(resp.data) : ArticleThrows(resp.data[i]) THEN Threw
    ELSE Got([i \in 1..Len(resp.data) |-> ScriptMapArticle(resp.data[i])])

\* the callback of uniqueArticles.map (lines 100-116)
ScriptNormalizeRecord(record) ==
    LET raw == record.tags
    IN  [record EXCEPT !.tags = IF raw.t = "string" THEN Arr(SplitTags(raw.c)) ELSE raw]

\* the script is not running and has written nothing
ScriptNotStarted ==
    /\ scriptUpstream = <<>>
    /\ scriptPc = "off"
    /\ scriptIdx = 1
    /\ scriptArticles = <<>>
    /\ scriptErrLog = <<>>
    /\ scriptUnique = <<>>
    /\ scriptNormalized = <<>>
    /\ scriptFile = NoFile

\* node dev-scraper.mjs has been started; the API will answer u to its tags
ScriptStarted(u) ==
    /\ scriptUpstream = u
    /\ scriptPc = "fetching"
    /\ scriptIdx = 1
    /\ scriptArticles = <<>>
    /\ scriptErrLog = <<>>
    /\ scriptUnique = <<>>
    /\ scriptNormalized = <<>>
    /\ scriptFile = NoFile

\* one iteration of `for (const tag of tags)` (lines 70-92)
FetchArticlesByTag ==
    /\ scriptPc = "fetching"
    /\ scriptIdx <= Len(scriptUpstream)
    /\ LET r == ScriptIteration(scriptUpstream[scriptIdx])
       IN  /\ scriptArticles' = IF r.threw THEN scriptArticles
                                            ELSE scriptArticles \o r.articles
           /\ scriptErrLog' = IF r.threw THEN Append(scriptErrLog, scriptIdx)
                                          ELSE scriptErrLog
    /\ scriptIdx' = scriptIdx + 1
    /\ UNCHANGED <<scriptUpstream, scriptPc, scriptUnique, scriptNormalized, scriptFile>>
    /\ UNCHANGED <<pipelineVars, pageVars>>

\* lines 94-119: de-duplicate, normalize, write ./devto-snippets.json
ScriptPostProcess(outcome) ==
    /\ scriptPc = "fetching"
    /\ scriptIdx > Len(scriptUpstream)
    /\ LET unique == Dedup(scriptArticles)
           batch == [i \in 1..Len(unique) |-> ScriptNormalizeRecord(unique[i])]
       IN  /\ scriptUnique' = unique
           /\ scriptNormalized' = batch
           /\ scriptFile' = WriteFileSync(scriptFile, batch, outcome)
    /\ scriptPc' = IF outcome = "written" THEN "done" ELSE "rejected"
    /\ UNCHANGED <<scriptUpstream, scriptIdx, scriptArticles, scriptErrLog>>
    /\ UNCHANGED <<pipelineVars, pageVars>>

ScriptSaves == ScriptPostProcess("written")

ScriptWriteFails == \E outcome \in WriteOutcomes \ {"written"} : ScriptPostProcess(outcome)

\* the script has been started in a directory without ./scraped-snippets.json;
\* u holds the answers of the upstream that are laid down beforehand
StartedPipeline(u) ==
    /\ run = 1
    /\ upstream = u
    /\ idx = [a \in Adapters |-> 1]
    /\ phase = [a \in Adapters |-> "fetch"]
    /\ allArticles = [a \in Adapters |-> <<>>]
    /\ requested = [a \in Adapters |-> <<>>]
    /\ errLog = [a \in Adapters |-> <<>>]
    /\ elapsed = [a \in Adapters |-> 0]
    /\ gap = [a \in Adapters |-> 0]
    /\ opc = "fetching"
    /\ uniqueArticles = <<>>
    /\ normalized = <<>>
    /\ file = NoFile
    /\ sinkCalls = <<>>
    /\ summary = NoSummary
    /\ prevIds = [a \in Adapters |-> <<>>]

\* the script has been started and the upstream has not been asked anything
InitPipeline == StartedPipeline([a \in Adapters |-> <<>>])

Init == InitPipeline /\ PageNotLoaded(NoEntry) /\ ScriptNotStarted

Next ==
    \/ \E a \in Adapters : Issue(a)
    \/ \E a \in Adapters : Respond(a)
    \/ \E a \in Adapters : RespondAgain(a)
    \/ \E a \in Adapters : DelayDone(a)
    \/ PostProcessOk
    \/ PostProcessWriteFails
    \/ NextRun

Spec == Init /\ [][Next]_vars

(***************************************************************************)
(* One run of the script under the scheduling of the event loop: a         *)
(* continuation that is ready runs and a timer that was set fires.  A feed *)
(* request settles, after at most its timeout of 10000 ms (lines 76, 150). *)
(* The Dev.to request of lines 18-23 is given no timeout, and the default  *)
(* of axios is none: a request the server never answers stays pending, so  *)
(* nothing forces Respond("devto").                                        *)
(***************************************************************************)
NextOfRun ==
    \/ \E a \in Adapters : Issue(a)
    \/ \E a \in Adapters : Respond(a)
    \/ \E a \in Adapters : DelayDone(a)
    \/ PostProcessOk
    \/ PostProcessWriteFails

\* the step of PostProcessOk or PostProcessWriteFails, told by what it does to opc
RunEnds == opc = "fetching" /\ AllSettled /\ opc' \in {"done", "error"}

\* the adapters whose requests carry `timeout: 10000`
TimedAdapters == {"hashnode", "alt"}

\* the continuation of `await Promise.all` runs once the three adapters returned
Fairness ==
    /\ \A a \in Adapters : WF_vars(Issue(a)) /\ WF_vars(DelayDone(a))
    /\ \A a \in TimedAdapters : WF_vars(Respond(a))
    /\ WF_opc(RunEnds)

SpecRun == Init /\ [][NextOfRun]_vars /\ Fairness

(***************************************************************************)
(* An adapter run to its end in one step: the for-loop of lines 15-45,     *)
(* 64-122, 141-194 folded over the responses of its tags/feeds.            *)
(***************************************************************************)
RECURSIVE RunAdapter(_, _, _, _)
RunAdapter(a, resps, i, st) ==
    IF i > NumUnits(a) THEN st
    ELSE LET r == Iteration(a, i, resps[i])
             issued == [st EXCEPT !.gap = st.elapsed, !.elapsed = 0]
         IN  RunAdapter(a, resps, i + 1,
                IF r.threw
                THEN [issued EXCEPT !.errLog = Append(@, i)]
                ELSE [issued EXCEPT !.allArticles = @ \o r.articles,
                                    !.elapsed = Delay(a)])

Returned(a, resps) ==
    RunAdapter(a, resps, 1, [allArticles |-> <<>>, errLog |-> <<>>, elapsed |-> 0, gap |-> 0])

\* Promise.all has just resolved in a first run whose upstream answered u
SettledPipeline(u) ==
    /\ run = 1
    /\ upstream = u
    /\ idx = [a \in Adapters |-> NumUnits(a) + 1]
    /\ phase = [a \in Adapters |-> "done"]
    /\ allArticles = [a \in Adapters |-> Returned(a, u[a]).allArticles]
    /\ requested = [a \in Adapters |-> [i \in 1..NumUnits(a) |-> i]]
    /\ errLog = [a \in Adapters |-> Returned(a, u[a]).errLog]
    /\ elapsed = [a \in Adapters |-> Returned(a, u[a]).elapsed]
    /\ gap = [a \in Adapters |-> Returned(a, u[a]).gap]
    /\ opc = "fetching"
    /\ uniqueArticles = <<>>
    /\ normalized = <<>>
    /\ file = NoFile
    /\ sinkCalls = <<>>
    /\ summary = NoSummary
    /\ prevIds = [a \in Adapters |-> <<>>]

InitSettled(u) == SettledPipeline(u) /\ PageNotLoaded(NoEntry) /\ ScriptNotStarted

SeqsUpTo(S, n) == UNION {[1..k -> S] : k \in 0..n}

\* the first response of an adapter is first, every later tag/feed fails
FirstThenFailures(a, first) ==
    [i \in 1..NumUnits(a) |-> IF i = 1 THEN first ELSE Failure]

(***************************************************************************)
(* Batch specification: the post-processing applied to the batches that    *)
(* Dev.to responses with repeated ids and every kind of tag_list give.     *)
(***************************************************************************)
BatchTagLists == {Null, Txt(<<"a", ",", " ", "b">>), Arr(<< <<"a">> >>)}

BatchArticles ==
    { Article(Num(id), title, tl) :
        id \in {101, 102}, title \in {TitleA, TitleB}, tl \in BatchTagLists }

\* the first article answers the first tag, the others the second tag
DevToSplit(arts) ==
    [i \in 1..NumTags |->
        IF i = 1 THEN ApiOk(SubSeq(arts, 1, IF Len(arts) < 1 THEN 0 ELSE 1))
        ELSE IF i = 2 THEN ApiOk(SubSeq(arts, 2, Len(arts)))
        ELSE Failure]

BatchUpstream(arts, h) ==
    [devto |-> DevToSplit(arts),
     hashnode |-> FirstThenFailures("hashnode", h),
     alt |-> FirstThenFailures("alt", AltContent(1))]

InitBatch ==
    \E arts \in SeqsUpTo(BatchArticles, MaxArticles) :
        \E h \in {Failure, HashnodeContent(1)} :
            InitSettled(BatchUpstream(arts, h))

NextBatch == PostProcessOk \/ PostProcessWriteFails

SpecBatch == InitBatch /\ [][NextBatch]_vars

(***************************************************************************)
(* Tag specification: the post-processing applied to one Dev.to article    *)
(* whose tag_list is any short text or any short array of short texts.     *)
(***************************************************************************)
MaxTagChars == 4
TagChars == {"a", " ", ","}

RichTagLists(n) ==
    {Null, Undefined}
    \cup {Txt(chars) : chars \in SeqsUpTo(TagChars, n)}
    \cup {Arr(elems) : elems \in SeqsUpTo(SeqsUpTo(TagChars, 2), 2)}

TagUpstream(tl) ==
    [devto |-> FirstThenFailures("devto", ApiOk(<< Article(Num(101), TitleA, tl) >>)),
     hashnode |-> FirstThenFailures("hashnode", Failure),
     alt |-> FirstThenFailures("alt", Failure)]

InitTags == \E tl \in RichTagLists(MaxTagChars) : InitSettled(TagUpstream(tl))

SpecTags == InitTags /\ [][NextBatch]_vars

(***************************************************************************)
(* Feed specification: the post-processing applied to what the adapters    *)
(* return when the first Hashnode feed and the first alternative feed give *)
(* any short parsed document.                                              *)
(***************************************************************************)
MaxFeedItems == 2

FeedItems ==
    { Item(guid, link, title, category) :
        guid \in {Undefined, Str(""), Str("g1")},
        link \in {Undefined, Str("l1")},
        title \in {Undefined, Txt(<<"a", "i", " ", "b">>)},
        category \in {Undefined, Txt(<<"a">>), Arr(<< <<"a">>, <<"b">> >>)} }

FeedResponses(n) ==
    {Failure, Parsed(NoRss), Parsed(NoChannel), Parsed(Channel(Undefined))}
    \cup {Parsed(Channel(item)) : item \in FeedItems}
    \cup {Parsed(Channel(Arr(items))) : items \in SeqsUpTo(FeedItems, n)}

\* the first Hashnode feed and the first alternative feed give the same document
FeedUpstream(resp) ==
    [devto |-> FirstThenFailures("devto", DevToContent(1)),
     hashnode |-> FirstThenFailures("hashnode", resp),
     alt |-> FirstThenFailures("alt", resp)]

InitFeed == \E resp \in FeedResponses(MaxFeedItems) : InitSettled(FeedUpstream(resp))

SpecFeed == InitFeed /\ [][NextBatch]_vars

(***************************************************************************)
(* Limit specification: the post-processing applied to what the adapters   *)
(* return when the first tag and the first feeds answer with responses     *)
(* that are shorter than, as long as, or longer than the per-tag and       *)
(* per-feed limits.                                                        *)
(***************************************************************************)
MaxOver == 2      \* how many articles/items beyond the limit a response can hold

LongestResponse == perTagLimit + MaxOver

\* the k-th article of a long Dev.to response and the k-th item of a long feed
LongArticle(k) == Article(Num(200 + k), TitleA, TagsAB)
LongItem(k, untitled) ==
    Item(Str("g" \o ToString(k)), Str("l" \o ToString(k)),
         IF k = untitled THEN Undefined ELSE Txt(<<"a", "i">>), Undefined)

\* a feed of m items whose item number `untitled` (if any) has no title
LongFeed(m, untitled) == Parsed(Channel(Arr([k \in 1..m |-> LongItem(k, untitled)])))

LimitUpstream(n, m, untitled) ==
    [devto |-> FirstThenFailures("devto", ApiOk([k \in 1..n |-> LongArticle(k)])),
     hashnode |-> FirstThenFailures("hashnode", LongFeed(m, untitled)),
     alt |-> FirstThenFailures("alt", LongFeed(m, untitled))]

InitLimit ==
    \E n \in 0..LongestResponse, m \in 0..LongestResponse :
        \E untitled \in 0..m :
            InitSettled(LimitUpstream(n, m, untitled))

SpecLimit == InitLimit /\ [][NextBatch]_vars

(***************************************************************************)
(* Title specification: the post-processing applied to what the RSS        *)
(* adapters return when their first feed holds one item with any short     *)
(* title and any kind of category.                                         *)
(***************************************************************************)
MaxTitleChars == 5

TitleChars == {"a", "I", " ", "\t"}

Categories ==
    {Undefined, Txt(<<>>), Txt(<<"a">>), Arr(<<>>), Arr(<< <<"a">>, <<"b">> >>)}

TitleUpstream(title, category) ==
    FeedUpstream(Parsed(Channel(Item(Str("g1"), Str("l1"), title, category))))

InitTitle ==
    \E chars \in SeqsUpTo(TitleChars, MaxTitleChars) :
        \E category \in Categories :
            InitSettled(TitleUpstream(Txt(chars), category))

SpecTitle == InitTitle /\ [][NextBatch]_vars

(***************************************************************************)
(* Scripts specification: both scripts on the same Dev.to answers, either  *)
(* one article with any short tag_list or a few articles with repeated     *)
(* ids.  The pipeline starts when Promise.all resolves, dev-scraper.mjs at *)
(* its first request.                                                      *)
(***************************************************************************)
MaxScriptArticles == 3

RepeatedArticles ==
    { Article(Num(id), title, Null) : id \in {101, 102}, title \in {TitleA, TitleB} }

ScriptInputs(n, m) ==
    {<< Article(Num(101), TitleA, tl) >> : tl \in RichTagLists(n)}
    \cup SeqsUpTo(RepeatedArticles, m)

ScriptsUpstream(arts) ==
    [devto |-> DevToSplit(arts),
     hashnode |-> FirstThenFailures("hashnode", Failure),
     alt |-> FirstThenFailures("alt", Failure)]

InitScripts ==
    \E arts \in ScriptInputs(MaxTagChars, MaxScriptArticles) :
        /\ SettledPipeline(ScriptsUpstream(arts))
        /\ ScriptStarted(DevToSplit(arts))
        /\ PageNotLoaded(NoEntry)

NextScripts ==
    \/ PostProcessOk
    \/ PostProcessWriteFails
    \/ FetchArticlesByTag
    \/ ScriptSaves
    \/ ScriptWriteFails

SpecScripts == InitScripts /\ [][NextScripts]_vars

(***************************************************************************)
(* Mapping specification: the post-processing applied to what the adapters *)
(* return when the first tag and the first feeds answer short lists in     *)
(* which any element may be one the mapping raises on.                     *)
(***************************************************************************)
MaxMapped == 3

MappingArticles == {Article(Num(101), TitleA, TagsAB), Article(Num(102), TitleB, Null), Null}

MappingItems == {ItemG1, ItemL2, ItemNoTitle}

MappingUpstream(arts, items) ==
    [devto |-> FirstThenFailures("devto", ApiOk(arts)),
     hashnode |-> FirstThenFailures("hashnode", Parsed(Channel(Arr(items)))),
     alt |-> FirstThenFailures("alt", Parsed(Channel(Arr(items))))]

InitMapping ==
    \E arts \in SeqsUpTo(MappingArticles, MaxMapped) :
        \E items \in SeqsUpTo(MappingItems, MaxMapped) :
            InitSettled(MappingUpstream(arts, items))

SpecMapping == InitMapping /\ [][NextBatch]_vars

(***************************************************************************)
(* File specification: runs of the script one after the other over the     *)
(* same file.  The answers of the upstream to a run are chosen when the    *)
(* run starts; the run itself goes request by request, timer by timer, its *)
(* three adapters interleaved, as in Spec.                                 *)
(***************************************************************************)
\* in a run the first tag/feed of an adapter answers or fails, the others fail
RunUpstreams ==
    { [a \in Adapters |->
          FirstThenFailures(a, IF a \in answering THEN Content(a, 1) ELSE Failure)] :
        answering \in {{}, {"devto"}, Adapters} }

MaxFileRuns == 3         \* runs over the same file in one behaviour

\* the first run starts; the answers the upstream will give to it are fixed
InitFile ==
    \E u \in RunUpstreams :
        StartedPipeline(u) /\ PageNotLoaded(NoEntry) /\ ScriptNotStarted

\* the script is run again, the file of the earlier runs still there, and
\* the upstream has new answers for it
RunAgain ==
    /\ opc \in {"done", "error"}
    /\ run < MaxFileRuns
    /\ \E u \in RunUpstreams : upstream' = u
    /\ run' = run + 1
    /\ prevIds' = [a \in Adapters |-> IDs(allArticles[a])]
    /\ idx' = [a \in Adapters |-> 1]
    /\ phase' = [a \in Adapters |-> "fetch"]
    /\ allArticles' = [a \in Adapters |-> <<>>]
    /\ requested' = [a \in Adapters |-> <<>>]
    /\ errLog' = [a \in Adapters |-> <<>>]
    /\ elapsed' = [a \in Adapters |-> 0]
    /\ gap' = [a \in Adapters |-> 0]
    /\ opc' = "fetching"
    /\ uniqueArticles' = <<>>
    /\ normalized' = <<>>
    /\ summary' = NoSummary
    /\ UNCHANGED <<file, sinkCalls>>
    /\ UNCHANGED <<pageVars, scriptVars>>

NextFile ==
    \/ \E a \in Adapters : Issue(a)
    \/ \E a \in Adapters : RespondAgain(a)
    \/ \E a \in Adapters : DelayDone(a)
    \/ PostProcessOk
    \/ PostProcessWriteFails
    \/ RunAgain

SpecFile == InitFile /\ [][NextFile]_vars

(***************************************************************************)
(* The search page (src/pages/index.tsx): the saved snippets, their        *)
(* persistence in localStorage, and the bookmark buttons of the hits.      *)
(* React runs the effects of a committed render in declaration order       *)
(* before it renders again, and a render applies the queued state updates  *)
(* in call order.                                                          *)
(***************************************************************************)
MaxLoads == 2     \* page loads in one behaviour
MaxClicks == 2    \* user actions on one loaded page

\* a search hit as the index returns it
Hit(id, source) ==
    [objectID |-> id, title |-> TitleA, snippet |-> Str("d"), url |-> Str("u"),
     tags |-> TagsAB, source |-> source]

\* the hits the search shows
Hits == << Hit("devto-101", "dev.to"), Hit("hashnode-g1", "hashnode") >>
HitIds == {Hits[i].objectID : i \in 1..Len(Hits)}
HitOf(id) == Hits[CHOOSE i \in 1..Len(Hits) : Hits[i].objectID = id]

\* saveSnippetsToStorage: setItem stores the text, or it throws (quota
\* exceeded, storage disabled) and the entry stays as it was
SaveSnippetsToStorage(entry, snippets, stored) ==
    IF stored THEN JsonText(Stringify(snippets)) ELSE entry

\* loadSnippetsFromStorage: null gives [], a text that does not parse gives []
LoadSnippetsFromStorage(entry) ==
    IF entry.kind = "json" THEN entry.value ELSE <<>>

\* the state updates the handlers and effects queue
SetSavedSnippets(value) == [op |-> "set", id |-> "", value |-> value]
SetIsHydrated == [op |-> "hydrate", id |-> "", value |-> <<>>]
AddSnippet(snippet) == [op |-> "add", id |-> snippet.objectID, value |-> <<snippet>>]
RemoveSnippet(id) == [op |-> "remove", id |-> id, value |-> <<>>]

\* one queued update applied to the saved snippets
ApplyUpdate(prev, u) ==
    CASE u.op = "set" -> u.value
      [] u.op = "add" -> prev \o u.value
      [] u.op = "remove" -> SelectSeq(prev, LAMBDA saved : saved.objectID # u.id)
      [] OTHER -> prev

RECURSIVE ApplyUpdates(_, _)
ApplyUpdates(prev, queue) ==
    IF queue = <<>> THEN prev
    ELSE ApplyUpdates(ApplyUpdate(prev, Head(queue)), Tail(queue))

\* the effect of lines 676-680 writes only when the render it belongs to is hydrated
SaveEffectRuns(scheduled, hydrated) == scheduled /\ hydrated

\* the storage as the document that is loaded finds it: it works, it is full
\* (setItem throws QuotaExceededError), or the browser refuses the access
\* (reading window.localStorage throws SecurityError)
StorageStates == {"works", "full", "refused"}

\* new Analytics() of the first getAnalytics() of a document (analytics.ts
\* lines 47-62): getOrCreateUserId reads the user id and, when there is
\* none, stores a new one, neither inside a try
NewAnalytics(known, storage) ==
    CASE storage = "refused" -> [threw |-> TRUE, known |-> known]
      [] known -> [threw |-> FALSE, known |-> TRUE]
      [] storage = "full" -> [threw |-> TRUE, known |-> FALSE]
      [] OTHER -> [threw |-> FALSE, known |-> TRUE]

\* the page is loaded (or reloaded) in a new document: SnippetSearchApp
\* renders with its initial state; line 660 constructs the analytics, and
\* when that throws the render throws before any useEffect call is reached:
\* nothing is mounted and no effect ever runs
PageLoad ==
    /\ loads < MaxLoads
    /\ loads' = loads + 1
    /\ \E storage \in StorageStates :
          LET analytics == NewAnalytics(userIdStored, storage)
          IN  /\ userIdStored' = analytics.known
              /\ mounted' = ~analytics.threw
              /\ effects' = IF analytics.threw THEN {} ELSE {"load", "save", "search"}
              /\ dataSaved' = IF analytics.threw THEN <<>> ELSE [id \in HitIds |-> "none"]
    /\ savedSnippets' = <<>>
    /\ isHydrated' = FALSE
    /\ updates' = <<>>
    /\ search' = NoSearch
    /\ saveError' = FALSE
    /\ clicks' = 0
    /\ UNCHANGED localStorage
    /\ UNCHANGED <<pipelineVars, scriptVars>>

\* the effects of the committed render run: load (lines 662-673), save
\* (lines 676-680), search (lines 691-928)
FlushEffects ==
    /\ mounted
    /\ effects # {}
    /\ effects' = {}
    /\ updates' =
          IF "load" \in effects
          THEN updates \o << SetSavedSnippets(LoadSnippetsFromStorage(localStorage)),
                              SetIsHydrated >>
          ELSE updates
    /\ IF SaveEffectRuns("save" \in effects, isHydrated)
       THEN \E stored \in BOOLEAN :
               /\ localStorage' = SaveSnippetsToStorage(localStorage, savedSnippets, stored)
               /\ saveError' = ~stored
       ELSE UNCHANGED <<localStorage, saveError>>
    /\ IF "search" \in effects
       THEN /\ search' = [started |-> TRUE, isHydrated |-> isHydrated,
                          savedSnippets |-> savedSnippets]
            /\ dataSaved' = [id \in HitIds |-> "none"]
       ELSE UNCHANGED <<search, dataSaved>>
    /\ UNCHANGED <<userIdStored, mounted, savedSnippets, isHydrated, loads, clicks>>
    /\ UNCHANGED <<pipelineVars, scriptVars>>

\* React renders again with the queued updates applied; savedSnippets is a
\* new array, so the save effect and the search effect are due again
Render ==
    /\ mounted
    /\ effects = {}
    /\ updates # <<>>
    /\ savedSnippets' = ApplyUpdates(savedSnippets, updates)
    /\ isHydrated' = (isHydrated \/ \E i \in 1..Len(updates) : updates[i].op = "hydrate")
    /\ updates' = <<>>
    /\ effects' = {"save", "search"}
    /\ UNCHANGED <<localStorage, userIdStored, mounted, search, dataSaved, saveError, loads, clicks>>
    /\ UNCHANGED <<pipelineVars, scriptVars>>

\* the results of the running search arrive and the hits template (lines
\* 734-761) renders each hit with the state its closure holds
RenderHits ==
    /\ mounted
    /\ search.started
    /\ dataSaved' =
          [id \in HitIds |->
              IF search.isHydrated
                 /\ \E i \in 1..Len(search.savedSnippets) : search.savedSnippets[i].objectID = id
              THEN "true" ELSE "false"]
    /\ dataSaved' # dataSaved
    /\ UNCHANGED <<localStorage, userIdStored, mounted, savedSnippets, isHydrated, updates,
                   effects, search, saveError, loads, clicks>>
    /\ UNCHANGED <<pipelineVars, scriptVars>>

\* handleBookmarkClick (lines 854-921): a click on the bookmark button of a hit
HandleBookmarkClick(id) ==
    /\ mounted
    /\ search.started
    /\ dataSaved[id] # "none"
    /\ clicks < MaxClicks
    /\ clicks' = clicks + 1
    /\ IF dataSaved[id] = "true"
       THEN /\ updates' = Append(updates, RemoveSnippet(id))
            /\ dataSaved' = [dataSaved EXCEPT ![id] = "false"]
       ELSE /\ updates' = Append(updates, AddSnippet(HitOf(id)))
            /\ dataSaved' = [dataSaved EXCEPT ![id] = "true"]
    /\ UNCHANGED <<localStorage, userIdStored, mounted, savedSnippets, isHydrated, effects,
                   search, saveError, loads>>
    /\ UNCHANGED <<pipelineVars, scriptVars>>

\* handleRemoveSavedSnippet (lines 930-942): Remove in the list of saved snippets
HandleRemoveSavedSnippet(id) ==
    /\ mounted
    /\ isHydrated
    /\ \E i \in 1..Len(savedSnippets) : savedSnippets[i].objectID = id
    /\ clicks < MaxClicks
    /\ clicks' = clicks + 1
    /\ updates' = Append(updates, RemoveSnippet(id))
    /\ UNCHANGED <<localStorage, userIdStored, mounted, savedSnippets, isHydrated, effects,
                   search, dataSaved, saveError, loads>>
    /\ UNCHANGED <<pipelineVars, scriptVars>>

\* what the browser can hold when the page is first opened
StoredEntries ==
    {NoEntry, BrokenText}
    \cup {JsonText(Stringify(SubSeq(Hits, 1, k))) : k \in 0..Len(Hits)}

\* the browser may hold saved snippets and no user id: the page was used
\* before it tracked its users, or the one entry was removed
InitPage ==
    /\ InitPipeline
    /\ \E stored \in StoredEntries : PageNotLoaded(stored)
    /\ ScriptNotStarted

NextPage ==
    \/ PageLoad
    \/ FlushEffects
    \/ Render
    \/ RenderHits
    \/ \E id \in HitIds : HandleBookmarkClick(id)
    \/ \E id \in HitIds : HandleRemoveSavedSnippet(id)

SpecPage == InitPage /\ [][NextPage]_vars

(***************************************************************************)
(* Properties.                                                             *)
(***************************************************************************)
PostProcessed == opc \in {"done", "error"}

Positions(batch, id) == {k \in 1..Len(batch) : batch[k].objectID = id}
Maximum(S) == CHOOSE x \in S : \A y \in S : y <= x
Minimum(S) == CHOOSE x \in S : \A y \in S : x <= y
LastPos(batch, id) == Maximum(Positions(batch, id))
FirstPos(batch, id) == Minimum(Positions(batch, id))

\* C1: the deduplicator's output has no two records with the same objectID,
\* holds every objectID of the concatenated input, and each surviving record
\* is, field for field, the input record at the last occurrence of its objectID.
C1_DedupLastOccurrenceWins ==
    PostProcessed =>
        LET input == Combined(allArticles)
            out == uniqueArticles
        IN  /\ \A i, j \in 1..Len(out) : out[i].objectID = out[j].objectID => i = j
            /\ \A k \in 1..Len(input) : \E i \in 1..Len(out) : out[i].objectID = input[k].objectID
            /\ \A i \in 1..Len(out) :
                  /\ Positions(input, out[i].objectID) # {}
                  /\ out[i] = input[LastPos(input, out[i].objectID)]

\* a post-processed batch in which an objectID occurred twice with different fields
C1_Witness ==
    /\ opc = "done"
    /\ Len(uniqueArticles) >= 2
    /\ \E k, m \in 1..Len(Combined(allArticles)) :
          /\ k < m
          /\ Combined(allArticles)[k].objectID = Combined(allArticles)[m].objectID
          /\ Combined(allArticles)[k] # Combined(allArticles)[m]

CleanTag(tag) == tag # <<>> /\ ~IsSpace(tag[1]) /\ ~IsSpace(tag[Len(tag)])

\* C2 as stated: whatever raw tags value the adapter produced, the tags of a
\* record of the final batch are an array whose entries are all non-empty and
\* carry no leading or trailing whitespace.
C2_TagsAlwaysClean ==
    PostProcessed =>
        \A i \in 1..Len(normalized) :
            /\ normalized[i].tags.t = "array"
            /\ \A n \in 1..Len(normalized[i].tags.v) : CleanTag(normalized[i].tags.v[n])

\* C2 amended: the tags of a record of the final batch are always an array;
\* for a raw comma-joined string every entry is non-empty and trimmed, for a
\* raw null/absent value the array is empty, and a raw array is kept as it
\* is, entry for entry.
C2_TagsArrayCleanWhenSplit ==
    PostProcessed =>
        /\ Len(normalized) = Len(uniqueArticles)
        /\ \A i \in 1..Len(normalized) :
              LET raw == uniqueArticles[i].tags
                  out == normalized[i].tags
              IN  /\ out.t = "array"
                  /\ raw.t = "string" => \A n \in 1..Len(out.v) : CleanTag(out.v[n])
                  /\ raw.t = "array" => out = raw
                  /\ raw.t \in {"null", "undefined"} => out.v = <<>>

\* a raw comma-joined string with a blank segment that still yields a tag
C2_Witness ==
    /\ opc = "done"
    /\ \E i \in 1..Len(normalized) :
          /\ uniqueArticles[i].tags.t = "string"
          /\ \E n \in 1..Len(Split(uniqueArticles[i].tags.c, ",")) :
                Trim(Split(uniqueArticles[i].tags.c, ",")[n]) = <<>>
          /\ Len(normalized[i].tags.v) >= 1

\* C5 as stated: the survivors are listed in the order of the last
\* occurrence of their objectIDs in the concatenated input.
C5_OrderOfLastOccurrence ==
    PostProcessed =>
        LET input == Combined(allArticles)
            out == uniqueArticles
        IN  \A i, j \in 1..Len(out) :
                i # j =>
                    (i < j <=> LastPos(input, out[i].objectID) < LastPos(input, out[j].objectID))

\* C5 amended: the survivors are listed in the order of the first occurrence
\* of their objectIDs in the concatenated input.
C5_OrderOfFirstOccurrence ==
    PostProcessed =>
        LET input == Combined(allArticles)
            out == uniqueArticles
        IN  \A i, j \in 1..Len(out) :
                i # j =>
                    (i < j <=> FirstPos(input, out[i].objectID) < FirstPos(input, out[j].objectID))

\* two survivors whose last occurrences are in the opposite order of their first ones
C5_Witness ==
    /\ opc = "done"
    /\ \E i, j \in 1..Len(uniqueArticles) :
          /\ i < j
          /\ LastPos(Combined(allArticles), uniqueArticles[i].objectID)
                > LastPos(Combined(allArticles), uniqueArticles[j].objectID)

\* the number of a's tags/feeds whose loop iteration has finished its try or catch block
Finished(a) == IF phase[a] = "delay" THEN idx[a] ELSE idx[a] - 1

\* what the i-th tag/feed of adapter a answered in this behaviour
Answer(a, i) == upstream[a][i]

\* C3: an adapter call never leaves its loop early: what it has accumulated
\* is the concatenation, in list order, of the mapped records of the finished
\* tags/feeds that did not fail, a failed tag/feed adds nothing and is logged,
\* and an adapter that returned has requested every tag/feed in list order.
C3_FailuresAreIsolated ==
    \A a \in Adapters :
        /\ phase[a] \in {"fetch", "await", "delay", "done"}
        /\ allArticles[a] =
              Flatten([i \in 1..Finished(a) |->
                        IF Iteration(a, i, Answer(a, i)).threw
                        THEN <<>>
                        ELSE Iteration(a, i, Answer(a, i)).articles])
        /\ errLog[a] =
              SelectSeq([i \in 1..Finished(a) |-> i],
                        LAMBDA i : Iteration(a, i, Answer(a, i)).threw)
        /\ requested[a] =
              [i \in 1..(IF phase[a] \in {"await", "delay"} THEN idx[a] ELSE idx[a] - 1) |-> i]
        /\ phase[a] = "done" => idx[a] = NumUnits(a) + 1

\* the Dev.to adapter returned the records of its second tag after its first tag failed
C3_Witness ==
    /\ phase["devto"] = "done"
    /\ errLog["devto"] = <<1>>
    /\ Len(allArticles["devto"]) >= 1
    /\ requested["devto"] = [i \in 1..NumTags |-> i]

\* C4: when an adapter issues a request that is not its first, its pacing
\* delay has elapsed since its previous request.
C4_DelayBetweenRequests ==
    \A a \in Adapters :
        (phase[a] = "await" /\ Len(requested[a]) >= 2) => gap[a] >= Delay(a)

\* the number of records of a batch with a given source
CountOf(batch, src) == Cardinality({i \in 1..Len(batch) : batch[i].source = src})

RECURSIVE SumOver(_, _)
SumOver(f, S) ==
    IF S = {} THEN 0
    ELSE LET x == CHOOSE y \in S : TRUE IN f[x] + SumOver(f, S \ {x})

\* C6: in a completed run the summary reports, for every source of the
\* final batch and for no other, the number of records of the final batch
\* with that source, and these counts sum to the reported total, which is
\* the length of the final batch.
C6_SummaryCountsMatchBatch ==
    opc = "done" =>
        /\ summary.logged
        /\ DOMAIN summary.sourceCounts = {normalized[i].source : i \in 1..Len(normalized)}
        /\ \A src \in DOMAIN summary.sourceCounts :
              summary.sourceCounts[src] = CountOf(normalized, src)
        /\ summary.total = Len(normalized)
        /\ SumOver(summary.sourceCounts, DOMAIN summary.sourceCounts) = summary.total

\* a completed run over a batch with a duplicate and with records of three sources
C6_Witness ==
    /\ opc = "done"
    /\ Len(normalized) < Len(Combined(allArticles))
    /\ Cardinality(DOMAIN summary.sourceCounts) >= 3
    /\ \E src \in DOMAIN summary.sourceCounts : summary.sourceCounts[src] >= 2

IsPrefix(s, u) == Len(s) <= Len(u) /\ s = SubSeq(u, 1, Len(s))

\* C7: in a run that receives the upstream responses of the run before it,
\* every adapter gives its records the objectIDs it gave them in that run.
C7_SameObjectIDsOnRerun ==
    run >= 2 =>
        \A a \in Adapters :
            /\ IsPrefix(IDs(allArticles[a]), prevIds[a])
            /\ phase[a] = "done" => IDs(allArticles[a]) = prevIds[a]

\* a second run in which every adapter has returned records again
C7_Witness ==
    /\ run = 2
    /\ \A a \in Adapters : phase[a] = "done" /\ Len(allArticles[a]) >= 1
    /\ \E a \in Adapters : errLog[a] # <<>>

\* the upstream items an iteration mapped (none if it raised)
IterationItems(a, i, resp) ==
    IF Iteration(a, i, resp).threw THEN <<>>
    ELSE IF a = "devto" THEN resp.data
    ELSE IF ~HasItems(resp.parsed) THEN <<>>
    ELSE Slice(WrapItems(resp.parsed.rss.channel.item),
               IF a = "hashnode" THEN perTagLimit ELSE AltFeedLimit)

\* the upstream items behind allArticles[a], position by position
MappedItems(a) == Flatten([i \in 1..Finished(a) |-> IterationItems(a, i, Answer(a, i))])

\* the source-native identifier: the id of an API article, the guid or else
\* the link of an RSS item (the text "undefined" when it has neither)
NativeId(a, item) ==
    IF a = "devto" THEN ToString(item.id.v)
    ELSE IF item.guid.t = "string" /\ item.guid.v # "" THEN item.guid.v
    ELSE IF item.link.t = "string" THEN item.link.v
    ELSE "undefined"

\* the fixed prefix an adapter gives its objectIDs
Prefix(a, record) == IF a = "devto" THEN "devto" ELSE record.source

\* every record of the final batch is the record some adapter made of some item
FromItem(record, a, k) ==
    /\ allArticles[a][k].objectID = record.objectID
    /\ allArticles[a][k].source = record.source

\* C8 as stated: the objectID of every record of the final batch is the
\* record's own source slug, then "-", then the native identifier of its item.
C8_ObjectIDIsSourceSlugThenId ==
    PostProcessed =>
        \A i \in 1..Len(normalized) :
            \E a \in Adapters : \E k \in 1..Len(allArticles[a]) :
                /\ FromItem(normalized[i], a, k)
                /\ normalized[i].objectID =
                      normalized[i].source \o "-" \o NativeId(a, MappedItems(a)[k])

\* C8 amended: the objectID of every record of the final batch is the fixed
\* prefix of its adapter (devto for the records whose source is dev.to, the
\* source slug itself for RSS records), then "-", then the native identifier
\* of its item.
C8_ObjectIDIsPrefixThenId ==
    PostProcessed =>
        /\ \A a \in Adapters : Len(MappedItems(a)) = Len(allArticles[a])
        /\ \A i \in 1..Len(normalized) :
              \E a \in Adapters : \E k \in 1..Len(allArticles[a]) :
                  /\ FromItem(normalized[i], a, k)
                  /\ normalized[i].objectID =
                        Prefix(a, normalized[i]) \o "-" \o NativeId(a, MappedItems(a)[k])
        /\ \A a \in Adapters : \A k \in 1..Len(allArticles[a]) :
              allArticles[a][k].objectID =
                  Prefix(a, allArticles[a][k]) \o "-" \o NativeId(a, MappedItems(a)[k])

\* a final batch with a Dev.to record, an RSS record named by its guid and
\* an RSS record named by its link
C8_Witness ==
    /\ opc = "done"
    /\ \E i, j, k \in 1..Len(normalized) :
          /\ normalized[i].objectID = "devto-101" /\ normalized[i].source = "dev.to"
          /\ normalized[j].objectID = "hashnode-g1"
          /\ normalized[k].objectID = "css-tricks-l1"

IsBare(resp) ==
    /\ resp.kind = "ok"
    /\ HasItems(resp.parsed)
    /\ resp.parsed.rss.channel.item.t = "object"

Wrapped(resp) == Parsed(Channel(Arr(<<resp.parsed.rss.channel.item>>)))

RssAdapters == {"hashnode", "alt"}

\* C9 as stated: a feed whose channel holds one bare item gives exactly one
\* record, the record the same item gives inside a one-element list.
C9_BareItemGivesOneRecord ==
    \A a \in RssAdapters :
        (phase[a] = "done" /\ IsBare(Answer(a, 1))) =>
            /\ Len(allArticles[a]) = 1
            /\ allArticles[a] = Iteration(a, 1, Wrapped(Answer(a, 1))).articles

\* C9 amended: a feed whose channel holds one bare item gives exactly what
\* the same item gives inside a one-element list: one record if the item has
\* a category or a string title, and no record (its mapping raises and the
\* feed is logged as failed) if it has neither.
C9_BareItemAsOneElementList ==
    \A a \in RssAdapters :
        (phase[a] = "done" /\ IsBare(Answer(a, 1))) =>
            LET item == Answer(a, 1).parsed.rss.channel.item
                mappable == Truthy(item.category) \/ item.title.t = "string"
            IN  /\ allArticles[a] = Iteration(a, 1, Wrapped(Answer(a, 1))).articles
                /\ (\E n \in 1..Len(errLog[a]) : errLog[a][n] = 1) <=> ~mappable
                /\ mappable => Len(allArticles[a]) = 1
                /\ ~mappable => allArticles[a] = <<>>

\* a bare item gave one record
C9_Witness ==
    /\ phase["hashnode"] = "done"
    /\ IsBare(Answer("hashnode", 1))
    /\ Len(allArticles["hashnode"]) = 1
    /\ allArticles["hashnode"][1].objectID = "hashnode-g1"

NoDuplicateIDs(batch) ==
    \A i, j \in 1..Len(batch) : batch[i].objectID = batch[j].objectID => i = j

AdapterSources(a) ==
    CASE a = "devto" -> {"dev.to"}
      [] a = "hashnode" -> {"hashnode"}
      [] a = "alt" -> {alternativeFeeds[i].source : i \in 1..Len(alternativeFeeds)}

\* the adapter whose result holds position k of the combined batch
AdapterAt(k) ==
    IF k <= Len(allArticles["devto"]) THEN "devto"
    ELSE IF k <= Len(allArticles["devto"]) + Len(allArticles["hashnode"]) THEN "hashnode"
    ELSE "alt"

\* C10: when no two records returned by the adapters have the same objectID,
\* the final batch has one record per returned record, in the order Dev.to,
\* Hashnode, alternative feeds, so its length is the sum of the three result
\* lengths, and each record has a tags array and a source slug of the adapter
\* that returned it.
C10_NoDuplicatesKeepsEveryRecord ==
    (PostProcessed /\ NoDuplicateIDs(Combined(allArticles))) =>
        /\ Len(normalized) =
              Len(allArticles["devto"]) + Len(allArticles["hashnode"]) + Len(allArticles["alt"])
        /\ \A k \in 1..Len(normalized) :
              /\ normalized[k].objectID = Combined(allArticles)[k].objectID
              /\ normalized[k].tags.t = "array"
              /\ normalized[k].source \in AdapterSources(AdapterAt(k))

\* three adapters returned records with distinct objectIDs, one with null tags
C10_Witness ==
    /\ opc = "done"
    /\ NoDuplicateIDs(Combined(allArticles))
    /\ \A a \in Adapters : Len(allArticles[a]) >= 1
    /\ \E k \in 1..Len(Combined(allArticles)) : Combined(allArticles)[k].tags.t = "null"

\* the calls of fs.writeFileSync of the current run
CallsOfRun == SelectSeq(sinkCalls, LAMBDA call : call.run = run)

\* the call of fs.writeFileSync of the current run threw
WriteFailed == CallsOfRun # <<>> /\ CallsOfRun[Len(CallsOfRun)].outcome # "written"

\* C11: when the write of the output artifact throws, the catch block logs
\* the error and the run ends there as an error: the per-source counts and
\* the summary are never logged, the write is not tried again, and nothing
\* more happens in the run.
C11_WriteFailureAbortsRun ==
    /\ [](WriteFailed =>
            /\ opc = "error"
            /\ ~summary.logged
            /\ summary = NoSummary
            /\ Len(CallsOfRun) = 1)
    /\ [][opc = "error" => (run' = run + 1 /\ sinkCalls' = sinkCalls /\ file' = file)]_vars

\* a run with a non-empty final batch whose write threw
C11_Witness ==
    /\ WriteFailed
    /\ opc = "error"
    /\ Len(normalized) >= 2
    /\ \E a \in Adapters : errLog[a] # <<>>

\* the summary block logged the per-source counts and the total of the final batch
Reported ==
    /\ summary.logged
    /\ summary.total = Len(normalized)
    /\ DOMAIN summary.sourceCounts = {normalized[i].source : i \in 1..Len(normalized)}

\* C12: every run, whatever fails in it, eventually reports the per-source
\* counts and the total of its unique records before it ends.  Read with the
\* one exit the code has besides the summary (a write of the output artifact
\* that throws ends the run with that error and no summary): a run comes to
\* its end, a run that ended well has reported, and a run that ended in error
\* had its write fail.
C12_RunEventuallyReports ==
    /\ (opc = "fetching") ~> (opc = "done" \/ opc = "error")
    /\ [](opc = "done" => Reported /\ ~WriteFailed)
    /\ [](opc = "error" => WriteFailed /\ ~summary.logged)

\* the run with both feed adapters returned (every feed request failed) and
\* the Dev.to request for the first tag still pending: nothing is written
\* and nothing is reported
C12_Witness ==
    /\ opc = "fetching"
    /\ phase["devto"] = "await" /\ requested["devto"] = <<1>>
    /\ \A a \in TimedAdapters : phase[a] = "done" /\ Len(errLog[a]) = NumUnits(a)
    /\ ~file.exists
    /\ ~summary.logged

\* the file as a returned write of the batch leaves it
Written(batch) == [exists |-> TRUE, whole |-> TRUE, content |-> Stringify(batch)]

\* every adapter returned an empty list
AllEmpty == \A a \in Adapters : allArticles[a] = <<>>

\* every tag request and every feed request of the run failed
AllFailed == \A a \in Adapters : errLog[a] = [i \in 1..NumUnits(a) |-> i]

\* C13: a run in which every adapter returned an empty list calls the sink
\* exactly once, with the empty array, and, the write having returned, ends
\* normally: the file holds the empty array, the summary reports 0 for every
\* adapter and a total of 0, and there is no error outcome (the only error
\* outcome of such a run is that of a write that threw).
C13_EmptyRunCompletes ==
    /\ AllFailed => AllEmpty
    /\ (PostProcessed /\ AllEmpty) =>
          /\ normalized = <<>>
          /\ Len(CallsOfRun) = 1
          /\ CallsOfRun[1].batch = <<>>
          /\ opc = "error" <=> WriteFailed
          /\ ~WriteFailed =>
                /\ opc = "done"
                /\ file = Written(<<>>)
                /\ summary = [logged |-> TRUE, devTo |-> 0, hashnode |-> 0, rss |-> 0,
                              sourceCounts |-> <<>>, total |-> 0]

\* a completed run in which every request failed
C13_Witness ==
    /\ opc = "done"
    /\ AllFailed
    /\ AllSettled
    /\ file = Written(<<>>)
    /\ summary.logged

\* the positions of the calls of the sink that changed the file, and the last of them
Effective(calls, outcomes) == {k \in 1..Len(calls) : calls[k].outcome \in outcomes}
LastEffective(calls, outcomes) == Maximum(Effective(calls, outcomes))

\* C14 as stated: the file holds exactly the final batch of the most recent
\* run whose write returned (and does not exist if there is none): a write
\* that throws leaves it as it was.
C14_FileIsLastWrittenBatch ==
    IF Effective(sinkCalls, {"written"}) = {}
    THEN file = NoFile
    ELSE file = Written(sinkCalls[LastEffective(sinkCalls, {"written"})].batch)

\* C14 amended: a write that returns replaces the whole file by the final
\* batch of its run, so no record of an earlier run outlives it; a write that
\* throws before the file is opened leaves the file as it was; a write that
\* throws after the file was opened leaves it truncated, holding an
\* incomplete text and no record of any earlier run. The file is as the most
\* recent write of either of the two kinds that touch it left it.
C14_FileIsLastWriteThatTouchedIt ==
    /\ IF Effective(sinkCalls, {"written", "cut"}) = {}
       THEN file = NoFile
       ELSE LET last == sinkCalls[LastEffective(sinkCalls, {"written", "cut"})]
            IN  IF last.outcome = "written" THEN file = Written(last.batch) ELSE file = CutFile
    /\ (file.exists /\ file.whole) =>
          /\ Effective(sinkCalls, {"written"}) # {}
          /\ file.content = Stringify(sinkCalls[LastEffective(sinkCalls, {"written"})].batch)

\* a later run has overwritten the batch of an earlier run with a batch that
\* lacks one of its records, and a write that threw in between changed nothing
C14_Witness ==
    /\ opc = "done"
    /\ Len(sinkCalls) >= 3
    /\ sinkCalls[1].outcome = "written"
    /\ sinkCalls[2].outcome = "unopened"
    /\ \E k \in 1..Len(sinkCalls[1].batch) :
          \A i \in 1..Len(file.content) :
              file.content[i].objectID # sinkCalls[1].batch[k].objectID
    /\ file = Written(normalized)
    /\ normalized # <<>>

\* the page is hydrated and neither a state update nor an effect is pending
Idle == mounted /\ isHydrated /\ updates = <<>> /\ effects = {}

\* the entry that holds exactly the saved snippets of the committed render
InStorage(snippets) == JsonText(Stringify(snippets))

\* what the page does once it has rendered: nothing is written to
\* localStorage before the page is hydrated, the hydrating render restores
\* the collection that localStorage held when the page was loaded, every write
\* stores the collection of the committed render, and whenever no update is
\* pending and the latest write did not throw, localStorage holds exactly the
\* in-memory collection; a write that throws is logged and leaves
\* localStorage behind the memory
StorageFollowsMemoryUnlessWriteThrows ==
    /\ [](Idle /\ ~saveError => localStorage = InStorage(savedSnippets))
    /\ [][localStorage' # localStorage =>
             /\ isHydrated
             /\ localStorage' = InStorage(savedSnippets)]_vars
    /\ [][(mounted /\ ~isHydrated /\ isHydrated') =>
             /\ localStorage' = localStorage
             /\ updates[1] = SetSavedSnippets(LoadSnippetsFromStorage(localStorage))
             /\ savedSnippets' = ApplyUpdates(LoadSnippetsFromStorage(localStorage), Tail(updates))]_vars
    /\ [][saveError' => localStorage' = localStorage]_vars

\* C15: saved snippets persist across page loads.  Every load of the page
\* renders it and schedules the restore of the saved collection from
\* localStorage; the restore comes before any write, and after hydration
\* every change of the collection is passed to localStorage, which holds the
\* in-memory collection whenever no update is pending (read with the
\* fallback of saveSnippetsToStorage: a setItem that throws is logged and
\* leaves the stored collection as it was).
C15_LoadRestoresAndStorageFollowsMemory ==
    /\ [][loads' # loads => (mounted' /\ "load" \in effects')]_vars
    /\ StorageFollowsMemoryUnlessWriteThrows

\* the page was loaded on a browser that holds saved snippets and no user
\* id, the render threw, and nothing is mounted: the stored collection is
\* neither restored nor shown
C15_Witness ==
    /\ loads >= 1
    /\ ~mounted
    /\ effects = {}
    /\ ~userIdStored
    /\ localStorage = InStorage(Hits)
    /\ savedSnippets = <<>>

\* some step of the post-processing of the current run has left its trace
PostProcessingBegun ==
    \/ opc # "fetching"
    \/ uniqueArticles # <<>>
    \/ normalized # <<>>
    \/ CallsOfRun # <<>>
    \/ summary.logged

\* C16: de-duplication, normalization, the write and the summary of a run
\* happen only when its three adapters have returned, a run calls the sink
\* at most once, and once the post-processing of a run has begun no adapter
\* issues a request or appends to its result list in that run.
C16_PostProcessingAfterAllSettled ==
    /\ [](PostProcessingBegun =>
            \A a \in Adapters : phase[a] = "done" /\ idx[a] = NumUnits(a) + 1)
    /\ [](Len(CallsOfRun) <= 1)
    /\ [](PostProcessed =>
            /\ uniqueArticles = Dedup(Combined(allArticles))
            /\ Len(CallsOfRun) = 1
            /\ CallsOfRun[1].batch = normalized)
    /\ [][(PostProcessingBegun /\ run' = run) =>
             /\ requested' = requested
             /\ allArticles' = allArticles
             /\ phase' = phase]_vars

\* a second run has been post-processed after each adapter returned records
C16_Witness ==
    /\ run = 2
    /\ opc = "done"
    /\ \A a \in Adapters : Len(requested[a]) = NumUnits(a) /\ allArticles[a] # <<>>
    /\ Len(CallsOfRun) = 1
    /\ Len(sinkCalls) = 2

\* the requests of adapter a that were issued and have not settled
InFlight(a) == Len(requested[a]) - Finished(a)

\* what adapter a asks for with its i-th request: a tag, a feed URL
Unit(a, i) ==
    CASE a = "devto" -> tags[i]
      [] a = "hashnode" -> hashnodeFeeds[i]
      [] a = "alt" -> alternativeFeeds[i].url

\* C17: in one adapter invocation the requests go out for the configured
\* tags/feeds in list order, each at most once and, when the adapter has
\* returned, each exactly once; at most one request of the adapter is in
\* flight at any time, and a tag/feed whose request failed is not requested
\* again.
C17_EachUnitRequestedOnceInOrder ==
    /\ [](\A a \in Adapters :
            /\ Len(requested[a]) <= NumUnits(a)
            /\ \A k \in 1..Len(requested[a]) :
                  Unit(a, requested[a][k]) = Unit(a, k) /\ requested[a][k] = k
            /\ phase[a] = "done" => Len(requested[a]) = NumUnits(a)
            /\ InFlight(a) \in {0, 1}
            /\ InFlight(a) = 1 <=> phase[a] = "await"
            /\ \A n \in 1..Len(errLog[a]) :
                  Cardinality({k \in 1..Len(requested[a]) : requested[a][k] = errLog[a][n]}) = 1)
    /\ [][\A a \in Adapters :
             (run' = run /\ requested'[a] # requested[a]) =>
                 /\ InFlight(a) = 0
                 /\ requested'[a] = Append(requested[a], Len(requested[a]) + 1)]_vars

\* an adapter has returned after its first request failed and its second was answered
C17_Witness ==
    /\ phase["alt"] = "done"
    /\ errLog["alt"] = <<1>>
    /\ requested["alt"] = <<1, 2>>
    /\ phase["devto"] = "await"
    /\ requested["devto"] = <<1, 2>>

\* the per-feed limit of an RSS adapter
FeedLimit(a) == IF a = "hashnode" THEN 15 ELSE 10

\* the items of a parsed feed, in feed order
FeedItemsOf(resp) ==
    IF resp.kind = "ok" /\ HasItems(resp.parsed)
    THEN WrapItems(resp.parsed.rss.channel.item)
    ELSE <<>>

\* the record an RSS adapter makes of an item of its i-th feed
ImageOf(a, i, item) ==
    IF a = "hashnode"
    THEN MapRssItem(item, "hashnode", HashnodeKeywords, "Hashnode Author")
    ELSE MapRssItem(item, alternativeFeeds[i].source, AltKeywords,
                    alternativeFeeds[i].source \o " Author")

Least(m, n) == IF m < n THEN m ELSE n

\* C18: a feed contributes at most its adapter's limit of records (15 for a
\* Hashnode feed, 10 for an alternative feed): the images of its first
\* `limit` items (of all its items if it has fewer), in feed order; a feed
\* whose request or mapping raised contributes none, and an item beyond the
\* limit is never looked at.
C18_FeedTruncatedToLimit ==
    \A a \in RssAdapters :
        phase[a] = "done" =>
            LET items == FeedItemsOf(Answer(a, 1))
                kept == Least(Len(items), FeedLimit(a))
                raised == \E n \in 1..Len(errLog[a]) : errLog[a][n] = 1
            IN  /\ Len(allArticles[a]) <= FeedLimit(a)
                /\ raised <=> (Answer(a, 1).kind = "error"
                               \/ \E k \in 1..kept : TitleThrows(items[k]))
                /\ raised => allArticles[a] = <<>>
                /\ ~raised => allArticles[a] = [k \in 1..kept |-> ImageOf(a, 1, items[k])]

\* feeds longer than the limits gave exactly 15 and exactly 10 records, an
\* item without title lying beyond both limits
C18_Witness ==
    /\ opc = "done"
    /\ Len(FeedItemsOf(Answer("hashnode", 1))) > 15
    /\ Len(allArticles["hashnode"]) = 15
    /\ Len(allArticles["alt"]) = 10
    /\ allArticles["alt"][10].objectID = "css-tricks-g10"
    /\ \E k \in 16..Len(FeedItemsOf(Answer("hashnode", 1))) :
          TitleThrows(FeedItemsOf(Answer("hashnode", 1))[k])

\* every tag but the first failed, so the result of the adapter is what the
\* first tag contributed
OnlyFirstTagAnswered ==
    /\ phase["devto"] = "done"
    /\ errLog["devto"] = [n \in 1..(NumTags - 1) |-> n + 1]

\* C19: whatever response the API returns for a tag, the Dev.to adapter
\* contributes at most perTagLimit records for that tag.
C19_AtMostPerTagLimitPerTag ==
    OnlyFirstTagAnswered => Len(allArticles["devto"]) <= perTagLimit

\* the positions of the separators of a text, with both of its ends
Boundaries(s, seps) == {0, Len(s) + 1} \cup {k \in 1..Len(s) : s[k] \in seps}

\* the k-th smallest element of a set of numbers
RECURSIVE Nth(_, _)
Nth(S, k) == IF k = 1 THEN Minimum(S) ELSE Nth(S \ {Minimum(S)}, k - 1)

\* the tokens of a text: what lies between two neighbouring separators
TokensAt(s, seps) ==
    [j \in 1..(Cardinality(Boundaries(s, seps)) - 1) |->
        SubSeq(s, Nth(Boundaries(s, seps), j) + 1, Nth(Boundaries(s, seps), j + 1) - 1)]

Keywords(a) == IF a = "hashnode" THEN HashnodeKeywords ELSE AltKeywords

\* the tags the claim gives an item, for the separators that delimit title tokens
TagsByClaim(a, item, seps) ==
    IF Truthy(item.category)
    THEN IF item.category.t = "array" THEN item.category.v ELSE <<item.category.c>>
    ELSE SelectSeq(TokensAt(ToLowerCase(item.title.c), seps),
                   LAMBDA token : token \in Keywords(a))

\* the record made of the single item of the first feed, if there is one
OneItemMapped(a) ==
    /\ phase[a] = "done"
    /\ IsBare(Answer(a, 1))
    /\ Len(allArticles[a]) = 1

\* C20 as stated: the tags of an RSS record are its item's category (a single
\* one wrapped, a list as it is) when the item has one, and otherwise the
\* allow-listed ones of the lower-cased tokens of the title, the tokens
\* being what white space separates, in title order, repeated ones kept.
C20_TagsFromCategoryOrTitleTokens ==
    \A a \in RssAdapters :
        OneItemMapped(a) =>
            allArticles[a][1].tags =
                Arr(TagsByClaim(a, Answer(a, 1).parsed.rss.channel.item, {" ", "\t"}))

\* C20 amended: the tags of an RSS record are its item's category (a single
\* one wrapped, a list as it is, even an empty one) when the item has a
\* category that is not empty text, and the title is then not used;
\* otherwise they are the allow-listed ones of the lower-cased tokens of the
\* title, in title order, repeated ones kept, the tokens being what single
\* space characters separate: a tab does not end a token.
C20_TagsFromCategoryOrSpaceTokens ==
    \A a \in RssAdapters :
        OneItemMapped(a) =>
            LET item == Answer(a, 1).parsed.rss.channel.item
                record == allArticles[a][1]
            IN  /\ record.tags = Arr(TagsByClaim(a, item, {" "}))
                /\ Truthy(item.category) =>
                      record.tags = ImageOf(a, 1, [item EXCEPT !.title = Txt(<<"a", "i">>)]).tags
                /\ record.tags.t = "array"
                /\ \A n \in 1..Len(record.tags.v) :
                      Truthy(item.category) \/ record.tags.v[n] \in Keywords(a)

\* a title whose lower-cased tokens give the same allow-listed tag twice
C20_Witness ==
    /\ opc = "done"
    /\ OneItemMapped("hashnode")
    /\ ~Truthy(Answer("hashnode", 1).parsed.rss.channel.item.category)
    /\ allArticles["hashnode"][1].tags = Arr(<< <<"a", "i">>, <<"a", "i">> >>)
    /\ Answer("hashnode", 1).parsed.rss.channel.item.title.c = <<"a", "I", " ", "a", "I">>

\* dev-scraper.mjs has de-duplicated and normalized its articles
ScriptPostProcessed == scriptPc \in {"done", "rejected"}

\* a segment without the white space at its two ends
Bare(segment) ==
    LET inked == {k \in 1..Len(segment) : ~IsSpace(segment[k])}
    IN  IF inked = {} THEN <<>>
        ELSE SubSeq(segment, Minimum(inked), Maximum(inked))

\* the tags the claim gives a comma-separated text
TagsOfText(chars) ==
    LET segments == TokensAt(chars, {","})
        bare == [k \in 1..Len(segments) |-> Bare(segments[k])]
    IN  SelectSeq(bare, LAMBDA tag : tag # <<>>)

\* the records of `out` made of comma-separated text carry the tags of the claim
SplitAsClaimed(in, out) ==
    /\ Len(out) = Len(in)
    /\ \A i \in 1..Len(in) :
          in[i].tags.t = "string" => out[i].tags = Arr(TagsOfText(in[i].tags.c))

\* C21: in both scripts a record whose raw tags are a comma-separated text
\* gets as its tags the segments between the commas, each without the white
\* space at its ends, the empty ones dropped, in the order of the text and
\* with repeated tags kept.
C21_StringTagsSplitTrimmedInOrder ==
    /\ PostProcessed => SplitAsClaimed(uniqueArticles, normalized)
    /\ ScriptPostProcessed => SplitAsClaimed(scriptUnique, scriptNormalized)

\* both scripts have written the tags of "a,,a": the empty segment is gone,
\* the repeated tag is kept
C21_Witness ==
    /\ opc = "done"
    /\ scriptPc = "done"
    /\ Len(uniqueArticles) = 1
    /\ uniqueArticles[1].tags = Txt(<<"a", ",", ",", "a">>)
    /\ scriptUnique[1].tags = Txt(<<"a", ",", ",", "a">>)
    /\ file.content[1].tags = Arr(<< <<"a">>, <<"a">> >>)
    /\ scriptFile.content[1].tags = Arr(<< <<"a">>, <<"a">> >>)

\* the records of `out` whose raw tags are null or absent carry the empty array
EmptiedWhenMissing(in, out) ==
    /\ Len(out) = Len(in)
    /\ \A i \in 1..Len(in) :
          in[i].tags.t \in {"null", "undefined"} => out[i].tags = Arr(<<>>)

\* C22: in both scripts a record whose raw tags value is null or absent is in
\* the output batch with tags equal to the empty array.
C22_MissingTagsBecomeEmptyArray ==
    /\ PostProcessed => EmptiedWhenMissing(uniqueArticles, normalized)
    /\ ScriptPostProcessed => EmptiedWhenMissing(scriptUnique, scriptNormalized)

\* C23: the tag normalization changes nothing but tags: the normalized batch
\* has the length and the record order of the deduplicated batch, and every
\* record keeps its fields and, tags apart, their values.
C23_NormalizerChangesOnlyTags ==
    PostProcessed =>
        /\ Len(normalized) = Len(uniqueArticles)
        /\ IDs(normalized) = IDs(uniqueArticles)
        /\ \A i \in 1..Len(uniqueArticles) :
              /\ DOMAIN normalized[i] = DOMAIN uniqueArticles[i]
              /\ \A f \in DOMAIN uniqueArticles[i] \ {"tags"} :
                    normalized[i][f] = uniqueArticles[i][f]

\* a batch of records of two sources in which the tags of a record changed
C23_Witness ==
    /\ opc = "done"
    /\ Len(normalized) >= 3
    /\ \E i, j \in 1..Len(normalized) :
          /\ normalized[i].tags # uniqueArticles[i].tags
          /\ normalized[j].source # normalized[i].source
          /\ DOMAIN normalized[j] # DOMAIN normalized[i]

\* the i-th feed of adapter a was fetched and parsed and lacks rss, channel or item
LacksItems(a, i) ==
    /\ Answer(a, i).kind = "ok"
    /\ LET doc == Answer(a, i).parsed
       IN  \/ doc.rss = Undefined
           \/ doc.rss.channel = Undefined
           \/ doc.rss.channel.item = Undefined

\* the answers of adapter a, the i-th feed holding an empty list of items
WithEmptyFeed(a, i) == [upstream[a] EXCEPT ![i] = Parsed(Channel(Arr(<<>>)))]

\* C24: a feed that was fetched and parsed but lacks the rss, channel or item
\* element is a feed without items: no error is logged for it, the adapter
\* returns what it returns when the feed holds an empty list of items, and
\* the feeds after it are requested and their failures logged.
C24_FeedWithoutItemsIsEmptyFeed ==
    \A a \in RssAdapters :
        \A i \in 1..NumUnits(a) :
            (phase[a] = "done" /\ LacksItems(a, i)) =>
                /\ \A k \in 1..Len(errLog[a]) : errLog[a][k] # i
                /\ allArticles[a] = Returned(a, WithEmptyFeed(a, i)).allArticles
                /\ gap[a] = Returned(a, WithEmptyFeed(a, i)).gap
                /\ \A j \in (i + 1)..NumUnits(a) :
                      /\ requested[a][j] = j
                      /\ Answer(a, j).kind = "error" =>
                            \E k \in 1..Len(errLog[a]) : errLog[a][k] = j

\* the first alternative feed has a channel without item: nothing is logged
\* for it, and the failure of the second feed is
C24_Witness ==
    /\ opc = "done"
    /\ LacksItems("alt", 1)
    /\ Answer("alt", 1).parsed.rss # Undefined
    /\ Answer("alt", 1).parsed.rss.channel # Undefined
    /\ allArticles["alt"] = <<>>
    /\ errLog["alt"] = [k \in 1..(NumAltFeeds - 1) |-> k + 1]
    /\ NumAltFeeds >= 2

\* what adapter a returns when it runs alone on the answers it was given
Alone(a) == Returned(a, upstream[a]).allArticles

\* the final batch computed from the answers alone, Dev.to first
BatchOfAnswers ==
    LET unique == Dedup(Alone("devto") \o Alone("hashnode") \o Alone("alt"))
    IN  [i \in 1..Len(unique) |-> NormalizeRecord(unique[i])]

\* a step that changes the list of adapter a is a step of a alone
OwnListOnly ==
    \A a \in Adapters :
        (allArticles'[a] # allArticles[a] /\ opc = "fetching") =>
            /\ phase[a] = "await"
            /\ \A b \in Adapters \ {a} :
                  /\ allArticles'[b] = allArticles[b]
                  /\ phase'[b] = phase[b]
                  /\ idx'[b] = idx[b]

\* C25: the final batch is a function of the upstream answers: whatever the
\* interleaving of the three adapters, it is the normalized, deduplicated
\* concatenation of what Dev.to, then Hashnode, then the alternative feeds
\* return on these answers, each list being what its adapter accumulates
\* when it runs alone; and no step of an adapter changes another's list.
C25_BatchIndependentOfInterleaving ==
    /\ [](PostProcessed =>
            /\ normalized = BatchOfAnswers
            /\ \A a \in Adapters : allArticles[a] = Alone(a))
    /\ [][OwnListOnly]_vars

\* a written batch with records of all three adapters: the Dev.to ones come
\* first and an alternative one comes last
C25_Witness ==
    /\ opc = "done"
    /\ Len(normalized) >= 3
    /\ normalized[1].source = "dev.to"
    /\ normalized[Len(normalized)].source \notin {"dev.to", "hashnode"}
    /\ \E i \in 1..Len(normalized) : normalized[i].source = "hashnode"

\* the positions of an input at which an objectID occurs for the first time
FirstOccurrences(input) ==
    {k \in 1..Len(input) : \A j \in 1..(k - 1) : input[j].objectID # input[k].objectID}

\* the i-th survivor has the objectID of the i-th first occurrence and the
\* fields of the last occurrence of that objectID
SurvivorsAtFirstOccurrence(input, out) ==
    /\ Len(out) = Cardinality(FirstOccurrences(input))
    /\ \A i \in 1..Len(out) :
          LET k == Nth(FirstOccurrences(input), i)
          IN  /\ out[i].objectID = input[k].objectID
              /\ out[i] = input[LastPos(input, input[k].objectID)]

\* C26: in both scripts the deduplicator's output holds one survivor per
\* objectID, at the rank of the first occurrence of its objectID in the
\* concatenated input and with the fields of the last occurrence.
C26_SurvivorAtFirstOccurrence ==
    /\ PostProcessed => SurvivorsAtFirstOccurrence(Combined(allArticles), uniqueArticles)
    /\ ScriptPostProcessed => SurvivorsAtFirstOccurrence(scriptArticles, scriptUnique)

\* both scripts were given 101, 102, 101: the survivor of 101 comes first and
\* has the title of the third article
C26_Witness ==
    /\ opc = "done"
    /\ scriptPc = "done"
    /\ Len(scriptArticles) = 3
    /\ Len(scriptUnique) = 2
    /\ scriptUnique[1] = scriptArticles[3]
    /\ scriptArticles[1] # scriptArticles[3]
    /\ Len(uniqueArticles) = 2
    /\ uniqueArticles[1] = Combined(allArticles)[3]
    /\ Combined(allArticles)[1] # Combined(allArticles)[3]

\* the i-th tag/feed of adapter a was processed and is in the catch log
Logged(a, i) == \E n \in 1..Len(errLog[a]) : errLog[a][n] = i

\* the elements of the i-th answer of adapter a that its mapping is applied to
Elements(a, i) ==
    IF Answer(a, i).kind = "error" THEN <<>>
    ELSE IF a = "devto" THEN Answer(a, i).data
    ELSE LET items == FeedItemsOf(Answer(a, i))
         IN  SubSeq(items, 1, Least(Len(items), FeedLimit(a)))

\* the mapping of adapter a raises on this element
Unmappable(a, element) ==
    IF a = "devto" THEN element \in {Null, Undefined}
    ELSE element.category \in {Undefined, Null, Txt(<<>>)} /\ element.title.t # "string"

\* the record adapter a makes of an element of its i-th answer
RecordOf(a, i, element) ==
    IF a = "devto" THEN MapDevToArticle(element) ELSE ImageOf(a, i, element)

\* what the i-th tag/feed contributes: the records of all its elements or nothing
AllOrNothing(a, i) ==
    IF \E k \in 1..Len(Elements(a, i)) : Unmappable(a, Elements(a, i)[k])
    THEN <<>>
    ELSE [k \in 1..Len(Elements(a, i)) |-> RecordOf(a, i, Elements(a, i)[k])]

\* C27: what an adapter returns is the concatenation, over its tags/feeds, of
\* either the records of all the (truncated) elements of the answer or of
\* nothing: one element the mapping raises on discards the whole tag/feed,
\* which is then in the catch log.
C27_TagOrFeedAllOrNothing ==
    \A a \in Adapters :
        phase[a] = "done" =>
            /\ allArticles[a] = Flatten([i \in 1..NumUnits(a) |-> AllOrNothing(a, i)])
            /\ \A i \in 1..NumUnits(a) :
                  Logged(a, i) <=>
                      \/ Answer(a, i).kind = "error"
                      \/ \E k \in 1..Len(Elements(a, i)) : Unmappable(a, Elements(a, i)[k])

\* a feed of three items whose last has neither category nor title, and a
\* Dev.to answer whose second element is null: both contribute nothing
C27_Witness ==
    /\ opc = "done"
    /\ Len(Elements("hashnode", 1)) = 3
    /\ ~Unmappable("hashnode", Elements("hashnode", 1)[1])
    /\ ~Unmappable("hashnode", Elements("hashnode", 1)[2])
    /\ Unmappable("hashnode", Elements("hashnode", 1)[3])
    /\ allArticles["hashnode"] = <<>>
    /\ Len(Elements("devto", 1)) >= 2
    /\ ~Unmappable("devto", Elements("devto", 1)[1])
    /\ Unmappable("devto", Elements("devto", 1)[2])
    /\ allArticles["devto"] = <<>>
    /\ Logged("devto", 1)

\* the source values the adapters are configured to give
ConfiguredSources ==
    {"dev.to", "hashnode"} \cup {alternativeFeeds[i].source : i \in 1..Len(alternativeFeeds)}

\* native ids, some of them made of the tail of a configured prefix
NativeIds ==
    {"g1", "", "-g1", "hashnode-g1", "tricks-g1", "magazine-g1", "design-ledger-g1",
     "ledger-g1", "movement-g1", "planet-g1", "to-g1"}

\* the objectID the adapter of a source gives the native id `id`
ObjectIDOf(source, id) ==
    IF source = "dev.to"
    THEN DevToObjectID([id |-> Str(id)])
    ELSE RssObjectID(source, [guid |-> Str(id), link |-> Undefined])

\* C28: records of different sources have different objectIDs: among the
\* records the adapters returned, and for every pair of configured sources
\* whatever the native ids; so the survivor of an objectID has the source of
\* every record that had this objectID.
C28_SourcesNeverShareObjectID ==
    /\ LET ids == [s \in ConfiguredSources |-> {ObjectIDOf(s, id) : id \in NativeIds}]
       IN  \A s1, s2 \in ConfiguredSources : s1 # s2 => ids[s1] \cap ids[s2] = {}
    /\ \A i, j \in 1..Len(Combined(allArticles)) :
          Combined(allArticles)[i].source # Combined(allArticles)[j].source =>
              Combined(allArticles)[i].objectID # Combined(allArticles)[j].objectID
    /\ PostProcessed =>
          \A i \in 1..Len(Combined(allArticles)) :
              \E k \in 1..Len(uniqueArticles) :
                  /\ uniqueArticles[k].objectID = Combined(allArticles)[i].objectID
                  /\ uniqueArticles[k].source = Combined(allArticles)[i].source

\* the same item reached Hashnode and css-tricks, and both records survive
C28_Witness ==
    /\ opc = "done"
    /\ \E i, j \in 1..Len(uniqueArticles) :
          /\ uniqueArticles[i].objectID = "hashnode-g1"
          /\ uniqueArticles[j].objectID = "css-tricks-g1"
          /\ uniqueArticles[i].source = "hashnode"
          /\ uniqueArticles[j].source = "css-tricks"
          /\ uniqueArticles[i].url = uniqueArticles[j].url

\* no two snippets of a list have the same objectID
DistinctSnippets(snippets) ==
    \A i, j \in 1..Len(snippets) :
        snippets[i].objectID = snippets[j].objectID => i = j

\* C29: whatever the bookmark clicks, removals from the modal, hydration and
\* re-renders of the search results, the saved-snippets collection of the
\* committed render holds no two snippets with the same objectID.
C29_SavedSnippetsHaveDistinctIds ==
    mounted => DistinctSnippets(savedSnippets)

====
